---------------------------- MODULE Spec2Model ----------------------------
(***************************************************************************)
(* A model of raiden's test factories (raiden/tests/utils/factories.py),   *)
(* of its state serialization helpers (raiden/utils/serialization.py) and  *)
(* of the channel, merkle tree, mediator and token network transitions     *)
(* these two files drive.                                                  *)
(*                                                                         *)
(* Values.  Python values of different types meet in one field (an int or  *)
(* the EMPTY sentinel, a nested properties object or None), so a value is  *)
(* a record whose field name is its type tag:                              *)
(*   [val |-> n]         an int, an address, a key, a secret               *)
(*   [sentinel |-> s]    EMPTY, GENERATE, None                             *)
(*   [hash |-> h]        a 32 byte hash, h a sequence of integers          *)
(*   [cid |-> r]         a CanonicalIdentifier                             *)
(*   [leaves |-> l]      a list of merkle tree leaves                      *)
(*   [cls, fields]       a Properties object of class cls                  *)
(*   [type, fields]      an object built by create                         *)
(***************************************************************************)
EXTENDS Integers, Sequences, FiniteSets, TLC

VARIABLES
    \* properties factories
    properties,      \* the properties object handed to create
    defaults,        \* the defaults object handed to create, or None
    rnd,             \* what the random helpers return during the call
    merged,          \* create_properties(properties, defaults), or None
    entity,          \* create(properties, defaults), or None
    signed           \* the data handed to Signer.sign during create, or None

propsVars == <<properties, defaults, rnd, merged, entity, signed>>

VARIABLES
    \* merkle trees of channel end states and their stored form
    leaves1,         \* merkletree_leaves, in the order one node supplies them
    leaves2,         \* the same for a second node
    tree1,           \* the layers of the end state built from leaves1, or None
    tree2,           \* the layers of the end state built from leaves2, or None
    stored,          \* serialize_merkletree_layers(tree1), or None
    restored         \* deserialize_merkletree_layers of a stored list, or None

treeVars == <<leaves1, leaves2, tree1, tree2, stored, restored>>

VARIABLES
    \* one channel, seen from our node
    chan,            \* the NettingChannelState
    block,           \* the current block number
    known,           \* the secrets our node has learned
    last             \* the last event applied to the channel and its outcome

chanVars == <<chan, block, known, last>>

VARIABLES
    \* a mediator and the channels of make_transfers_pair
    med,             \* the MediatorTransfersPair, an AssertionError, or None
    medBlock,        \* the current block number at the mediator
    medKnown,        \* whether the mediator has learned the secret
    medOnchain,      \* whether the mediator has registered the secret on-chain
    medLast          \* the last event the mediator handled and its outcome

medVars == <<med, medBlock, medKnown, medOnchain, medLast>>

VARIABLES
    \* a token network built by create_network
    tokenNetwork,    \* the TokenNetworkState
    netChannels,     \* the channels create_network has created so far
    netEvents,       \* the state changes create_network has applied so far
    netLast,         \* the last state change applied and its outcome
    netStored,       \* a routable graph and what serialize_networkx_graph made of it
    netRestored      \* what deserialize_networkx_graph made of the stored text

netVars == <<tokenNetwork, netChannels, netEvents, netLast, netStored, netRestored>>

VARIABLES
    \* an object on its way through json_encode and json_decode
    jsonObj,         \* the object
    jsonText,        \* what json_encode made of it
    jsonBack         \* what json_decode made of the text

jsonVars == <<jsonObj, jsonText, jsonBack>>

vars == <<propsVars, treeVars, chanVars, medVars, netVars, jsonVars>>

\* What the steps of one part of the model leave alone.
outsideProps == <<treeVars, chanVars, medVars, netVars, jsonVars>>
outsideTree == <<propsVars, chanVars, medVars, netVars, jsonVars>>
outsideChan == <<propsVars, treeVars, medVars, netVars, jsonVars>>
outsideMed == <<propsVars, treeVars, chanVars, netVars, jsonVars>>
outsideNet == <<propsVars, treeVars, chanVars, medVars, jsonVars>>
outsideJson == <<propsVars, treeVars, chanVars, medVars, netVars>>

-----------------------------------------------------------------------------
(* Sentinels and unit constants of factories.py *)

Val(n) == [val |-> n]
Hash(h) == [hash |-> h]
EMPTY == [sentinel |-> "empty"]
GENERATE == [sentinel |-> "generate"]
None == [sentinel |-> "None"]

UNIT_SETTLE_TIMEOUT == 50
UNIT_REVEAL_TIMEOUT == 5
UNIT_TRANSFER_AMOUNT == 10
UNIT_SECRET == 1
UNIT_TOKEN_ADDRESS == 130
UNIT_TOKEN_NETWORK_ADDRESS == 131
UNIT_PAYMENT_NETWORK_IDENTIFIER == 132
UNIT_CHANNEL_ID == 1338
UNIT_CHAIN_ID == 337
UNIT_TRANSFER_IDENTIFIER == 37
UNIT_TRANSFER_INITIATOR == 121
UNIT_TRANSFER_TARGET == 120
UNIT_TRANSFER_PKEY == 9
HOP1_KEY == 1
HOP2_KEY == 2
HOP3_KEY == 3
HOP4_KEY == 4
HOP5_KEY == 5

\* raiden.utils.privatekey_to_address: one address per key.
privatekey_to_address(key) == 100 + key

UNIT_TRANSFER_SENDER == privatekey_to_address(UNIT_TRANSFER_PKEY)
HOP1 == privatekey_to_address(HOP1_KEY)
HOP2 == privatekey_to_address(HOP2_KEY)
HOP3 == privatekey_to_address(HOP3_KEY)
HOP4 == privatekey_to_address(HOP4_KEY)
HOP5 == privatekey_to_address(HOP5_KEY)

\* raiden.utils.sha3: a hash is the tagged preimage, so distinct inputs hash apart.
sha3(bytes) == <<9>> \o bytes

EMPTY_MERKLE_ROOT == <<0>>
UNIT_SECRETHASH == sha3(<<UNIT_SECRET>>)

CanonicalIdentifier(chain, network, channel) ==
    [chain_identifier |-> chain, token_network_address |-> network,
     channel_identifier |-> channel]

UNIT_CANONICAL_ID ==
    CanonicalIdentifier(UNIT_CHAIN_ID, UNIT_TOKEN_NETWORK_ADDRESS, UNIT_CHANNEL_ID)

\* Local variables: the values are computed once and body is applied to them.
Bind(value, body(_)) == CHOOSE result \in {body(x) : x \in {value}} : TRUE
Bind2(value1, value2, body(_, _)) ==
    CHOOSE result \in {body(x, y) : x \in {value1}, y \in {value2}} : TRUE

-----------------------------------------------------------------------------
(* raiden.transfer.merkle_tree *)

RECURSIVE BytesLess(_, _)
\* bytes.__lt__ on two hashes: shorter first, then position by position.
BytesLess(a, b) ==
    IF Len(a) # Len(b) THEN Len(a) < Len(b)
    ELSE IF Len(a) = 0 THEN FALSE
    ELSE IF Head(a) # Head(b) THEN Head(a) < Head(b)
    ELSE BytesLess(Tail(a), Tail(b))

\* hash_pair: the two nodes are hashed in their byte order.
hash_pair(first, second) ==
    IF BytesLess(second, first)
    THEN sha3(<<Len(second)>> \o second \o first)
    ELSE sha3(<<Len(first)>> \o first \o second)

RECURSIVE sorted(_)
\* sorted(elements): ascending byte order, by insertion.
sorted(elements) ==
    IF Len(elements) <= 1 THEN elements
    ELSE Bind(sorted(Tail(elements)), LAMBDA rest :
             LET x == Head(elements)
                 k == Cardinality({i \in 1..Len(rest) : BytesLess(rest[i], x)})
             IN SubSeq(rest, 1, k) \o <<x>> \o SubSeq(rest, k + 1, Len(rest)))

\* One layer up: neighbours are hashed pairwise, an odd last node is carried.
next_layer(layer) ==
    [i \in 1..((Len(layer) + 1) \div 2) |->
        IF 2 * i <= Len(layer) THEN hash_pair(layer[2 * i - 1], layer[2 * i])
        ELSE layer[2 * i - 1]]

RECURSIVE layers_above(_)
layers_above(nodes) ==
    Bind(nodes, LAMBDA layer :
        IF Len(layer) <= 1 THEN <<layer>>
        ELSE <<layer>> \o layers_above(next_layer(layer)))

\* compute_layers(elements): the leaves are sorted, then hashed up to one root.
compute_layers(elements) == layers_above(sorted(elements))

EMPTY_MERKLE_TREE == <<<<>>, <<EMPTY_MERKLE_ROOT>>>>

LEAVES == 1

\* merkleroot(tree): the single node of the last layer.
merkleroot(layers) == layers[Len(layers)][1]

SeqToSet(s) == {s[i] : i \in 1..Len(s)}

-----------------------------------------------------------------------------
(* The properties classes: their fields in declaration order, the value a   *)
(* field has when the constructor is not given it, and the class DEFAULTS.  *)

IsProperties(v) == "cls" \in DOMAIN v

Properties(cls, fields) == [cls |-> cls, fields |-> fields]

TransactionExecutionStatusFields ==
    {"started_block_number", "finished_block_number", "result"}
NettingChannelEndStateFields ==
    {"address", "privatekey", "balance", "merkletree_leaves", "merkletree_width"}
NettingChannelStateFields ==
    {"canonical_identifier", "token_address", "payment_network_identifier",
     "reveal_timeout", "settle_timeout", "mediation_fee", "our_state",
     "partner_state", "open_transaction", "close_transaction", "settle_transaction"}
BalanceProofFields ==
    {"nonce", "transferred_amount", "locked_amount", "locksroot", "canonical_identifier"}
BalanceProofSignedStateFields ==
    BalanceProofFields \cup {"message_hash", "signature", "sender", "pkey"}
LockedTransferFields ==
    BalanceProofFields \cup {"amount", "expiration", "initiator", "target",
                             "payment_identifier", "token", "secret"}
LockedTransferSignedStateFields ==
    LockedTransferFields \cup {"sender", "recipient", "pkey", "message_identifier"}

ClassFields(cls) ==
    CASE cls = "TransactionExecutionStatusProperties" -> TransactionExecutionStatusFields
      [] cls = "NettingChannelEndStateProperties" -> NettingChannelEndStateFields
      [] cls = "NettingChannelStateProperties" -> NettingChannelStateFields
      [] cls = "BalanceProofProperties" -> BalanceProofFields
      [] cls = "BalanceProofSignedStateProperties" -> BalanceProofSignedStateFields
      [] cls = "LockedTransferProperties" -> LockedTransferFields
      [] cls = "LockedTransferSignedStateProperties" -> LockedTransferSignedStateFields

PropertiesClasses ==
    {"TransactionExecutionStatusProperties", "NettingChannelEndStateProperties",
     "NettingChannelStateProperties", "BalanceProofProperties",
     "BalanceProofSignedStateProperties", "LockedTransferProperties",
     "LockedTransferSignedStateProperties"}

\* The dataclass field default: EMPTY, but GENERATE for the signature.
FieldDefault(cls, k) ==
    IF cls = "BalanceProofSignedStateProperties" /\ k = "signature" THEN GENERATE ELSE EMPTY

\* cls(**kwargs): the fields given, every other field at its dataclass default.
New(cls, given) ==
    Bind(given, LAMBDA kwargs :
        Properties(cls, [k \in ClassFields(cls) |->
            IF k \in DOMAIN kwargs THEN kwargs[k] ELSE FieldDefault(cls, k)]))

\* Properties.kwargs: the fields that are set, i.e. are not EMPTY.
kwargs(props) == {k \in DOMAIN props.fields : props.fields[k] # EMPTY}

\* Properties.extract(subset_type): the fields of subset_type, as they are.
extract(props, subset_type) ==
    Properties(subset_type, [k \in ClassFields(subset_type) |-> props.fields[k]])

if_empty(value, default) == IF value # EMPTY THEN value ELSE default

\* make_canonical_identifier(): the identifier drawn when the module is loaded.
DEFAULT_CHANNEL_ID == 7

TransactionExecutionStatusDEFAULTS ==
    New("TransactionExecutionStatusProperties",
        [started_block_number |-> None, finished_block_number |-> None,
         result |-> [val |-> 1]])

NettingChannelEndStateDEFAULTS ==
    New("NettingChannelEndStateProperties",
        [address |-> None, privatekey |-> None, balance |-> Val(100),
         merkletree_leaves |-> None, merkletree_width |-> Val(0)])

NettingChannelStateDEFAULTS ==
    New("NettingChannelStateProperties",
        [canonical_identifier |->
            [cid |-> CanonicalIdentifier(UNIT_CHAIN_ID, UNIT_TOKEN_NETWORK_ADDRESS,
                                         DEFAULT_CHANNEL_ID)],
         token_address |-> Val(UNIT_TOKEN_ADDRESS),
         payment_network_identifier |-> Val(UNIT_PAYMENT_NETWORK_IDENTIFIER),
         reveal_timeout |-> Val(UNIT_REVEAL_TIMEOUT),
         settle_timeout |-> Val(UNIT_SETTLE_TIMEOUT),
         mediation_fee |-> Val(0),
         our_state |-> NettingChannelEndStateDEFAULTS,
         partner_state |-> NettingChannelEndStateDEFAULTS,
         open_transaction |-> TransactionExecutionStatusDEFAULTS,
         close_transaction |-> None,
         settle_transaction |-> None])

BalanceProofDEFAULTS ==
    New("BalanceProofProperties",
        [nonce |-> Val(1), transferred_amount |-> Val(UNIT_TRANSFER_AMOUNT),
         locked_amount |-> Val(0), locksroot |-> Hash(EMPTY_MERKLE_ROOT),
         canonical_identifier |-> [cid |-> UNIT_CANONICAL_ID]])

BalanceProofSignedStateDEFAULTS ==
    New("BalanceProofSignedStateProperties",
        BalanceProofDEFAULTS.fields @@
        [sender |-> Val(UNIT_TRANSFER_SENDER), pkey |-> Val(UNIT_TRANSFER_PKEY)])

RECURSIVE create_properties(_, _)
RECURSIVE _replace_properties(_, _)
RECURSIVE DEFAULTS(_)

LockedTransferDEFAULTS ==
    New("LockedTransferProperties",
        create_properties(
            New("BalanceProofProperties",
                [locked_amount |-> Val(UNIT_TRANSFER_AMOUNT),
                 transferred_amount |-> Val(0)]), None).fields @@
        [amount |-> Val(UNIT_TRANSFER_AMOUNT), expiration |-> Val(UNIT_REVEAL_TIMEOUT),
         initiator |-> Val(UNIT_TRANSFER_INITIATOR), target |-> Val(UNIT_TRANSFER_TARGET),
         payment_identifier |-> Val(1), token |-> Val(UNIT_TOKEN_ADDRESS),
         secret |-> Val(UNIT_SECRET)])

LockedTransferSignedStateDEFAULTS ==
    New("LockedTransferSignedStateProperties",
        LockedTransferDEFAULTS.fields @@
        [sender |-> Val(UNIT_TRANSFER_SENDER), recipient |-> Val(UNIT_TRANSFER_TARGET),
         pkey |-> Val(UNIT_TRANSFER_PKEY), message_identifier |-> Val(1)])

\* type(properties).DEFAULTS
DEFAULTS(cls) ==
    CASE cls = "TransactionExecutionStatusProperties" -> TransactionExecutionStatusDEFAULTS
      [] cls = "NettingChannelEndStateProperties" -> NettingChannelEndStateDEFAULTS
      [] cls = "NettingChannelStateProperties" -> NettingChannelStateDEFAULTS
      [] cls = "BalanceProofProperties" -> BalanceProofDEFAULTS
      [] cls = "BalanceProofSignedStateProperties" -> BalanceProofSignedStateDEFAULTS
      [] cls = "LockedTransferProperties" -> LockedTransferDEFAULTS
      [] cls = "LockedTransferSignedStateProperties" -> LockedTransferSignedStateDEFAULTS

\* A bug _replace_properties could have: a nested properties object replaces
\* the default as a whole.
_replace_whole(props_, dflt_) ==
    Bind2(props_, dflt_, LAMBDA props, dflt :
        Properties(dflt.cls, [k \in DOMAIN dflt.fields |->
            IF k \in kwargs(props) THEN props.fields[k] ELSE dflt.fields[k]]))

\* dataclasses.replace(defaults, **replacements): the set fields of properties
\* over defaults, a nested properties object merged with the default's.
_replace_properties(props_, dflt_) ==
    Bind2(props_, dflt_, LAMBDA props, dflt :
        Properties(dflt.cls, [k \in DOMAIN dflt.fields |->
            IF k \in kwargs(props)
            THEN IF IsProperties(props.fields[k])
                 THEN create_properties(props.fields[k], dflt.fields[k])
                 ELSE props.fields[k]
            ELSE dflt.fields[k]]))

create_properties(props_, dflt_) ==
    Bind2(props_, dflt_, LAMBDA props, dflt :
        LET full_defaults == IF dflt # None
                             THEN _replace_properties(dflt, DEFAULTS(props.cls))
                             ELSE DEFAULTS(props.cls)
        IN _replace_properties(props, full_defaults))

-----------------------------------------------------------------------------
(* create: objects from their properties.  An object is [type, fields]; a   *)
(* failed assert is the object AssertionError.                              *)

Object(type, fields) == [type |-> type, fields |-> fields]
AssertionError(msg) == Object("AssertionError", [msg |-> msg])
IsAssertionError(obj) == "type" \in DOMAIN obj /\ obj.type = "AssertionError"

TARGET_TYPE(cls) ==
    CASE cls = "TransactionExecutionStatusProperties" -> "TransactionExecutionStatus"
      [] cls = "NettingChannelEndStateProperties" -> "NettingChannelEndState"
      [] cls = "NettingChannelStateProperties" -> "NettingChannelState"
      [] cls = "BalanceProofProperties" -> "BalanceProofUnsignedState"
      [] cls = "BalanceProofSignedStateProperties" -> "BalanceProofSignedState"
      [] cls = "LockedTransferProperties" -> "LockedTransferUnsignedState"
      [] cls = "LockedTransferSignedStateProperties" -> "LockedTransferSignedState"

\* Lock / HashTimeLockState and its lockhash = sha3(lock.as_bytes).
Lock(amount, expiration, secrethash) ==
    [amount |-> amount, expiration |-> expiration, secrethash |-> secrethash]
lockhash(lock) == sha3(<<lock.amount, lock.expiration>> \o lock.secrethash)

\* hash_balance_data(transferred_amount, locked_amount, locksroot)
hash_balance_data(params) ==
    Hash(sha3(<<params.transferred_amount, params.locked_amount>> \o <<params.locksroot>>))

\* balance_proof.pack_balance_proof: the fields that are signed, in their order.
pack_balance_proof(balance_hash, additional_hash, canonical_identifier, nonce) ==
    [balance_hash |-> balance_hash, additional_hash |-> additional_hash,
     canonical_identifier |-> canonical_identifier, nonce |-> nonce]

\* Signer.sign(data): a signature names the key and what was signed.
sign(pkey, data) == [signature |-> [pkey |-> pkey, data |-> data]]

\* _partial_dict(full_dict, *args)
_partial_dict(full_dict, keys) == [k \in keys |-> full_dict[k]]

\* `value or other`: None is falsy, as are 0 and the empty list.
Falsy(v) == v = None \/ v = Val(0) \/ v = [leaves |-> <<>>]

RECURSIVE create(_, _, _)

\* _properties_to_kwargs(properties, defaults)
_properties_to_kwargs(props, dflt, r) ==
    Bind(create_properties(props, IF dflt # None THEN dflt ELSE DEFAULTS(props.cls)),
         LAMBDA full :
             [k \in DOMAIN full.fields |->
                 create(full.fields[k], None,
                        IF k = "partner_state" THEN [r EXCEPT !.our = r.partner] ELSE r)])

\* create registered for NettingChannelEndStateProperties
create_NettingChannelEndState(props, dflt, r) ==
    Bind(_properties_to_kwargs(
             props, IF dflt # None THEN dflt ELSE NettingChannelEndStateDEFAULTS, r),
         LAMBDA args :
    LET address == IF Falsy(args.address) THEN Val(r.our.address) ELSE args.address
        width == args.merkletree_width.val
        made == [leaves |-> SubSeq(r.our.leaves, 1, width)]
        merkletree_leaves ==
            IF ~Falsy(args.merkletree_leaves) THEN args.merkletree_leaves
            ELSE IF ~Falsy(made) THEN made ELSE None
    IN Object("NettingChannelEndState",
           [address |-> address,
            contract_balance |-> args.balance,
            merkletree |-> IF merkletree_leaves # None
                           THEN [layers |-> compute_layers(merkletree_leaves.leaves)]
                           ELSE [layers |-> EMPTY_MERKLE_TREE]]))

\* The data create hands to signer.sign for BalanceProofSignedStateProperties.
data_to_sign_BalanceProofSignedState(props, dflt) ==
    Bind(create_properties(props, IF dflt # None THEN dflt
                                  ELSE BalanceProofSignedStateDEFAULTS).fields,
         LAMBDA params :
    LET keys == {"transferred_amount", "locked_amount", "locksroot"}
    IN pack_balance_proof(hash_balance_data(_partial_dict(params, keys)),
                          params.message_hash, params.canonical_identifier, params.nonce))

\* create registered for BalanceProofSignedStateProperties
create_BalanceProofSignedState(props, dflt, r) ==
    Bind(create_properties(props, IF dflt # None THEN dflt
                                  ELSE BalanceProofSignedStateDEFAULTS).fields,
         LAMBDA params :
    LET rest == _partial_dict(params, DOMAIN params \ {"pkey"})
    IN Object("BalanceProofSignedState",
           IF params.signature = GENERATE
           THEN [rest EXCEPT !.signature =
                    sign(params.pkey, data_to_sign_BalanceProofSignedState(props, dflt))]
           ELSE rest))

\* create registered for LockedTransferProperties
create_LockedTransferUnsignedState(props, dflt, r) ==
    Bind(create_properties(props, dflt), LAMBDA merged_ :
    LET lock == Lock(merged_.fields.amount.val, merged_.fields.expiration.val,
                     sha3(<<merged_.fields.secret.val>>))
        transfer == IF merged_.fields.locksroot = Hash(EMPTY_MERKLE_ROOT)
                    THEN [merged_ EXCEPT !.fields.locksroot = Hash(lockhash(lock))]
                    ELSE merged_
    IN Object("LockedTransferUnsignedState",
           [balance_proof |-> create(extract(transfer, "BalanceProofProperties"), None, r),
            lock |-> [lock |-> lock]] @@
           _partial_dict(transfer.fields,
                         {"initiator", "target", "payment_identifier", "token"})))

\* create registered for LockedTransferSignedStateProperties: the LockedTransfer
\* message is built and signed, and lockedtransfersigned_from_message turns it
\* into the state object.
create_LockedTransferSignedState(props, dflt, r) ==
    Bind(create_properties(props, dflt).fields, LAMBDA transfer :
    LET lock == Lock(transfer.amount.val, transfer.expiration.val,
                     sha3(<<transfer.secret.val>>))
        canonical_identifier == transfer.canonical_identifier
        locksroot == IF transfer.locksroot = Hash(EMPTY_MERKLE_ROOT)
                     THEN Hash(lockhash(lock)) ELSE transfer.locksroot
        signer_address == Val(privatekey_to_address(transfer.pkey.val))
        message_hash == Hash(sha3(<<transfer.message_identifier.val,
                                    transfer.payment_identifier.val>>))
        balance_proof ==
            Object("BalanceProofSignedState",
                [nonce |-> transfer.nonce,
                 transferred_amount |-> transfer.transferred_amount,
                 locked_amount |-> transfer.locked_amount,
                 locksroot |-> locksroot,
                 canonical_identifier |-> canonical_identifier,
                 message_hash |-> message_hash,
                 signature |-> sign(transfer.pkey,
                     pack_balance_proof(
                         hash_balance_data([transferred_amount |-> transfer.transferred_amount,
                                            locked_amount |-> transfer.locked_amount,
                                            locksroot |-> locksroot]),
                         message_hash, canonical_identifier, transfer.nonce)),
                 sender |-> signer_address])
    IN IF signer_address # transfer.sender
       THEN AssertionError("locked_transfer.sender == sender")
       ELSE Object("LockedTransferSignedState",
                [message_identifier |-> transfer.message_identifier,
                 payment_identifier |-> transfer.payment_identifier,
                 token |-> transfer.token,
                 balance_proof |-> balance_proof,
                 lock |-> [lock |-> lock],
                 initiator |-> transfer.initiator,
                 target |-> transfer.target,
                 recipient |-> transfer.recipient]))

\* create(properties, defaults): dispatch on the class of properties; anything
\* that is no properties object is returned as it is.
create(props_, dflt_, r) ==
    Bind2(props_, dflt_, LAMBDA props, dflt :
    IF ~IsProperties(props) THEN props
    ELSE CASE props.cls = "NettingChannelEndStateProperties" ->
                create_NettingChannelEndState(props, dflt, r)
           [] props.cls = "BalanceProofSignedStateProperties" ->
                create_BalanceProofSignedState(props, dflt, r)
           [] props.cls = "LockedTransferProperties" ->
                create_LockedTransferUnsignedState(props, dflt, r)
           [] props.cls = "LockedTransferSignedStateProperties" ->
                create_LockedTransferSignedState(props, dflt, r)
           [] OTHER ->
                Object(TARGET_TYPE(props.cls), _properties_to_kwargs(props, dflt, r)))

-----------------------------------------------------------------------------
(* raiden.transfer.state and raiden.transfer.channel: the channel state and *)
(* its transitions.  A channel and its messages are plain records; an end   *)
(* state without a balance proof has nonce 0, amounts 0 and the empty root. *)

NettingChannelEndState(address, balance) ==
    [address |-> address, contract_balance |-> balance, withdrawn_amount |-> 0,
     nonce |-> 0, transferred_amount |-> 0, locked_amount |-> 0,
     locksroot |-> EMPTY_MERKLE_ROOT, pending |-> {}, merkletree |-> EMPTY_MERKLE_TREE]

\* The channel state of an object built by create(NettingChannelStateProperties).
NettingChannelState(obj) ==
    LET end(e) == [NettingChannelEndState(e.fields.address.val, e.fields.contract_balance.val)
                      EXCEPT !.merkletree = e.fields.merkletree.layers]
    IN [canonical_identifier |-> obj.fields.canonical_identifier.cid,
        reveal_timeout |-> obj.fields.reveal_timeout.val,
        settle_timeout |-> obj.fields.settle_timeout.val,
        our_state |-> end(obj.fields.our_state),
        partner_state |-> end(obj.fields.partner_state),
        closed |-> obj.fields.close_transaction # None]

\* The message fields of a LockedTransferSignedState built by create.
LockedTransferSignedState(obj) ==
    LET bp == obj.fields.balance_proof.fields
    IN [nonce |-> bp.nonce.val, transferred_amount |-> bp.transferred_amount.val,
        locked_amount |-> bp.locked_amount.val, locksroot |-> bp.locksroot.hash,
        canonical_identifier |-> bp.canonical_identifier.cid,
        sender |-> bp.sender.val, recipient |-> obj.fields.recipient.val,
        lock |-> obj.fields.lock.lock]

Sum(S, f(_)) ==
    LET RECURSIVE sum(_)
        sum(T) == IF T = {} THEN 0 ELSE LET x == CHOOSE x \in T : TRUE
                                        IN f(x) + sum(T \ {x})
    IN sum(S)

\* compute_merkletree_with: the tree with one more leaf, <<>> (None) when the
\* leaf is already in it.
compute_merkletree_with(merkletree, leaf) ==
    IF leaf \in SeqToSet(merkletree[LEAVES]) THEN <<>>
    ELSE compute_layers(Append(merkletree[LEAVES], leaf))

\* A bug compute_merkletree_without could have: the leaf stays in the tree.
keeps_the_leaf(merkletree, leaf) == merkletree

\* compute_merkletree_without: the tree without a leaf, <<>> (None) when the
\* leaf is not in it.
compute_merkletree_without(merkletree, leaf) ==
    LET leaves == merkletree[LEAVES]
        rest == SelectSeq(leaves, LAMBDA x : x # leaf)
    IN IF leaf \notin SeqToSet(leaves) THEN <<>>
       ELSE IF rest = <<>> THEN EMPTY_MERKLE_TREE
       ELSE compute_layers(rest)

\* get_balance of the sender: deposit - withdrawn + already settled, i.e. what
\* the receiver transferred to it less what it transferred itself.
get_balance(sender, receiver) ==
    sender.contract_balance - sender.withdrawn_amount
        + receiver.transferred_amount - sender.transferred_amount

\* Rule 1 of balance proof validation: the nonce is strictly greater than the
\* one stored for the sender.  Below it, a bug it could have.
accepts_equal_nonce(nonce, sender_state) == nonce >= sender_state.nonce
is_valid_nonce(nonce, sender_state) == nonce > sender_state.nonce

\* reveal_timeout < lock.expiration < settle_timeout
is_valid_expiration(expiration, channel_state) ==
    channel_state.reveal_timeout < expiration /\ expiration < channel_state.settle_timeout

Failure(msg) == [ok |-> FALSE, msg |-> msg, merkletree |-> <<>>]
Success(merkletree) == [ok |-> TRUE, msg |-> "", merkletree |-> merkletree]

\* The rules every balance proof must pass: channel open, signer, channel,
\* nonce, transferred amount.
is_balance_proof_usable(bp, channel_state, sender_state) ==
    IF channel_state.closed THEN Failure("channel is closed")
    ELSE IF bp.sender # sender_state.address
    THEN Failure("signature is not from the expected participant")
    ELSE IF bp.canonical_identifier # channel_state.canonical_identifier
    THEN Failure("canonical identifier of another channel")
    ELSE IF ~is_valid_nonce(bp.nonce, sender_state) THEN Failure("nonce did not increase")
    ELSE IF bp.transferred_amount < sender_state.transferred_amount
    THEN Failure("transferred amount decreased")
    ELSE Success(<<>>)

is_valid_lockedtransfer(transfer, channel_state, sender_state, receiver_state) ==
    LET lock == transfer.lock
        usable == is_balance_proof_usable(transfer, channel_state, sender_state)
        merkletree == compute_merkletree_with(sender_state.merkletree, lockhash(lock))
    IN IF ~usable.ok THEN usable
       ELSE IF \E l \in sender_state.pending : l.secrethash = lock.secrethash
       THEN Failure("duplicate lock")
       ELSE IF merkletree = <<>> THEN Failure("lock hash already in the tree")
       ELSE IF ~is_valid_expiration(lock.expiration, channel_state)
       THEN Failure("expiration outside the window")
       ELSE IF transfer.locked_amount # sender_state.locked_amount + lock.amount
       THEN Failure("locked amount mismatch")
       ELSE IF transfer.locked_amount > get_balance(sender_state, receiver_state)
       THEN Failure("insufficient capacity")
       ELSE IF transfer.locksroot # merkleroot(merkletree) THEN Failure("locksroot mismatch")
       ELSE Success(merkletree)

\* The sender's end state after an accepted balance proof.
with_balance_proof(end_state, bp, merkletree, pending) ==
    [end_state EXCEPT !.nonce = bp.nonce, !.transferred_amount = bp.transferred_amount,
                      !.locked_amount = bp.locked_amount, !.locksroot = bp.locksroot,
                      !.merkletree = merkletree, !.pending = pending]

\* A bug handle_receive_lockedtransfer could have: the balance proof is stored
\* before it is validated.
stores_before_validating(channel_state, transfer) ==
    LET valid == is_valid_lockedtransfer(transfer, channel_state,
                     channel_state.partner_state, channel_state.our_state)
    IN [ok |-> valid.ok, msg |-> valid.msg,
        channel |-> [channel_state EXCEPT !.partner_state.nonce = transfer.nonce]]

handle_receive_lockedtransfer(channel_state, transfer) ==
    LET applied(valid) ==
            [ok |-> valid.ok, msg |-> valid.msg,
             channel |-> IF valid.ok
                         THEN [channel_state EXCEPT !.partner_state =
                                 with_balance_proof(@, transfer, valid.merkletree,
                                                    @.pending \cup {transfer.lock})]
                         ELSE channel_state]
    IN Bind(is_valid_lockedtransfer(transfer, channel_state,
                channel_state.partner_state, channel_state.our_state),
            applied)

\* is_valid_unlock: the lock of the secret is pending and not expired, its amount
\* moves from locked to transferred and its leaf leaves the tree.
is_valid_unlock(unlock, channel_state, sender_state, block_number) ==
    LET usable == is_balance_proof_usable(unlock, channel_state, sender_state)
        locks == {l \in sender_state.pending : l.secrethash = sha3(<<unlock.secret>>)}
        lock == CHOOSE l \in locks : TRUE
        merkletree == compute_merkletree_without(sender_state.merkletree, lockhash(lock))
    IN IF ~usable.ok THEN usable
       ELSE IF locks = {} THEN Failure("no pending lock for the secret")
       ELSE IF ~(block_number < lock.expiration) THEN Failure("lock expired")
       ELSE IF merkletree = <<>> THEN Failure("lock is not in the tree")
       ELSE IF unlock.transferred_amount # sender_state.transferred_amount + lock.amount
       THEN Failure("transferred amount mismatch")
       ELSE IF unlock.locked_amount # sender_state.locked_amount - lock.amount
       THEN Failure("locked amount mismatch")
       ELSE IF unlock.locksroot # merkleroot(merkletree) THEN Failure("locksroot mismatch")
       ELSE Success(merkletree)

handle_unlock(channel_state, unlock, block_number) ==
    LET applied(valid) ==
            [ok |-> valid.ok, msg |-> valid.msg,
             channel |-> IF valid.ok
                         THEN [channel_state EXCEPT !.partner_state =
                                 with_balance_proof(@, unlock, valid.merkletree,
                                     {l \in @.pending :
                                         l.secrethash # sha3(<<unlock.secret>>)})]
                         ELSE channel_state]
    IN Bind(is_valid_unlock(unlock, channel_state, channel_state.partner_state,
                            block_number),
            applied)

\* A lock can be pruned once the block number is past its expiration and the
\* secret is still unknown.
is_lock_expired(lock, block_number, secrets) ==
    /\ block_number > lock.expiration
    /\ \A secret \in secrets : sha3(<<secret>>) # lock.secrethash

\* is_valid_lock_expired: the lock is pending and expired, its amount leaves
\* locked_amount, transferred_amount stays and the leaf leaves the tree.
is_valid_lock_expired(expired, channel_state, sender_state, block_number, secrets) ==
    LET usable == is_balance_proof_usable(expired, channel_state, sender_state)
        locks == {l \in sender_state.pending : l.secrethash = expired.secrethash}
        lock == CHOOSE l \in locks : TRUE
        merkletree == compute_merkletree_without(sender_state.merkletree, lockhash(lock))
    IN IF ~usable.ok THEN usable
       ELSE IF locks = {} THEN Failure("no pending lock for the secrethash")
       ELSE IF ~is_lock_expired(lock, block_number, secrets)
       THEN Failure("lock has not expired")
       ELSE IF merkletree = <<>> THEN Failure("lock is not in the tree")
       ELSE IF expired.transferred_amount # sender_state.transferred_amount
       THEN Failure("transferred amount changed")
       ELSE IF expired.locked_amount # sender_state.locked_amount - lock.amount
       THEN Failure("locked amount mismatch")
       ELSE IF expired.locksroot # merkleroot(merkletree) THEN Failure("locksroot mismatch")
       ELSE Success(merkletree)

\* A bug handle_receive_lock_expired could have: the expired amount is booked
\* as transferred.
expiry_books_transfer(channel_state, expired, block_number, secrets) ==
    LET valid == is_valid_lock_expired(expired, channel_state, channel_state.partner_state,
                                       block_number, secrets)
        lock == CHOOSE l \in channel_state.partner_state.pending :
                    l.secrethash = expired.secrethash
    IN [ok |-> valid.ok, msg |-> valid.msg,
        channel |-> IF valid.ok
                    THEN [channel_state EXCEPT !.partner_state =
                            with_balance_proof(@,
                                [expired EXCEPT !.transferred_amount = @ + lock.amount],
                                valid.merkletree,
                                {l \in @.pending : l.secrethash # expired.secrethash})]
                    ELSE channel_state]

handle_receive_lock_expired(channel_state, expired, block_number, secrets) ==
    LET applied(valid) ==
            [ok |-> valid.ok, msg |-> valid.msg,
             channel |-> IF valid.ok
                         THEN [channel_state EXCEPT !.partner_state =
                                 with_balance_proof(@, expired, valid.merkletree,
                                     {l \in @.pending :
                                         l.secrethash # expired.secrethash})]
                         ELSE channel_state]
    IN Bind(is_valid_lock_expired(expired, channel_state, channel_state.partner_state,
                                  block_number, secrets),
            applied)

\* send_lockedtransfer: our end state takes the next nonce, the lock and the new
\* root; the event carries the transfer to the partner.  ok is FALSE (no event,
\* the channel as it was) when the transfer cannot be constructed.
send_lockedtransfer(channel_state, amount, expiration, secrethash) ==
    LET our == channel_state.our_state
        lock == Lock(amount, expiration, secrethash)
        merkletree == compute_merkletree_with(our.merkletree, lockhash(lock))
        ok == /\ ~channel_state.closed
              /\ merkletree # <<>>
              /\ \A l \in our.pending : l.secrethash # secrethash
              /\ our.locked_amount + amount <= get_balance(our, channel_state.partner_state)
        transfer == [nonce |-> our.nonce + 1,
                     transferred_amount |-> our.transferred_amount,
                     locked_amount |-> our.locked_amount + amount,
                     locksroot |-> IF ok THEN merkleroot(merkletree) ELSE EMPTY_MERKLE_ROOT,
                     canonical_identifier |-> channel_state.canonical_identifier,
                     sender |-> our.address,
                     recipient |-> channel_state.partner_state.address,
                     lock |-> lock]
    IN [ok |-> ok, transfer |-> transfer,
        recipient |-> channel_state.partner_state.address,
        channel |-> IF ok
                    THEN [channel_state EXCEPT !.our_state =
                            with_balance_proof(@, transfer, merkletree, @.pending \cup {lock})]
                    ELSE channel_state]

\* The channel as the partner's node holds it.
partner_view(channel_state) ==
    [channel_state EXCEPT !.our_state = channel_state.partner_state,
                          !.partner_state = channel_state.our_state]

\* send_unlock: our lock of the secret leaves the tree, its amount moves from
\* locked to transferred, under the next nonce.  ok is FALSE when we hold no
\* such lock; the message then carries our balance proof as it is.
send_unlock(channel_state, secret) ==
    LET our == channel_state.our_state
        locks == {l \in our.pending : l.secrethash = sha3(<<secret>>)}
        lock == CHOOSE l \in locks : TRUE
        ok == locks # {} /\ ~channel_state.closed
        merkletree == IF ok THEN compute_merkletree_without(our.merkletree, lockhash(lock))
                      ELSE our.merkletree
        amount == IF ok THEN lock.amount ELSE 0
        unlock == [nonce |-> our.nonce + 1,
                   transferred_amount |-> our.transferred_amount + amount,
                   locked_amount |-> our.locked_amount - amount,
                   locksroot |-> merkleroot(merkletree),
                   canonical_identifier |-> channel_state.canonical_identifier,
                   sender |-> our.address, secret |-> secret]
    IN [ok |-> ok, unlock |-> unlock,
        channel |-> IF ok
                    THEN [channel_state EXCEPT !.our_state =
                            with_balance_proof(@, unlock, merkletree, @.pending \ locks)]
                    ELSE channel_state]

\* send_lock_expired: our lock leaves the tree and locked_amount, under the next
\* nonce; transferred_amount stays.
send_lock_expired(channel_state, secrethash) ==
    LET our == channel_state.our_state
        locks == {l \in our.pending : l.secrethash = secrethash}
        lock == CHOOSE l \in locks : TRUE
        ok == locks # {} /\ ~channel_state.closed
        merkletree == IF ok THEN compute_merkletree_without(our.merkletree, lockhash(lock))
                      ELSE our.merkletree
        amount == IF ok THEN lock.amount ELSE 0
        expired == [nonce |-> our.nonce + 1,
                    transferred_amount |-> our.transferred_amount,
                    locked_amount |-> our.locked_amount - amount,
                    locksroot |-> merkleroot(merkletree),
                    canonical_identifier |-> channel_state.canonical_identifier,
                    sender |-> our.address, secrethash |-> secrethash]
    IN [ok |-> ok, expired |-> expired,
        channel |-> IF ok
                    THEN [channel_state EXCEPT !.our_state =
                            with_balance_proof(@, expired, merkletree, @.pending \ locks)]
                    ELSE channel_state]

-----------------------------------------------------------------------------
(* make_signed_transfer_for *)

SIGNED_TRANSFER_FOR_CHANNEL_DEFAULTS ==
    create_properties(
        New("LockedTransferSignedStateProperties",
            [expiration |-> Val(UNIT_SETTLE_TIMEOUT - UNIT_REVEAL_TIMEOUT)]), None)

\* merkleroot(None): compute_merkletree_with found the lock hash in the tree.
AttributeError(msg) == Object("AttributeError", [msg |-> msg])
IsError(obj) ==
    /\ "type" \in DOMAIN obj
    /\ obj.type \in {"AssertionError", "AttributeError", "TypeError", "ModuleNotFoundError"}

\* A bug the expiration assertion could have: the bounds are let through.
expiration_at_bounds_passes(channel_state, expiration) ==
    channel_state.reveal_timeout <= expiration /\ expiration <= channel_state.settle_timeout
\* channel_state.reveal_timeout < expiration < channel_state.settle_timeout
expiration_is_valid(channel_state, expiration) ==
    channel_state.reveal_timeout < expiration /\ expiration < channel_state.settle_timeout

\* A bug make_signed_transfer_for could have: the transfer is created from the
\* properties alone, whatever the channel.
transfer_of_properties_alone(channel_state_, properties_, defaults_, compute_locksroot, allow_invalid, only_transfer, r) ==
    create(IF properties_ # None THEN properties_
           ELSE New("LockedTransferSignedStateProperties", <<>>),
           IF defaults_ # None THEN defaults_ ELSE SIGNED_TRANSFER_FOR_CHANNEL_DEFAULTS, r)

\* make_signed_transfer_for(channel_state, properties, defaults, compute_locksroot,
\* allow_invalid, only_transfer): the signed transfer, or the error it raises.
make_signed_transfer_for(channel_state_, properties_, defaults_, compute_locksroot, allow_invalid, only_transfer, r) ==
    \* if_empty(channel_state, create(NettingChannelStateProperties()))
    Bind(IF channel_state_ # EMPTY THEN channel_state_
         ELSE NettingChannelState(
                  create(New("NettingChannelStateProperties", <<>>), None, r)),
         LAMBDA channel_state :
    LET checked(transfer) ==
            LET valid(message) ==
                    is_valid_lockedtransfer(message, channel_state,
                        channel_state.partner_state, channel_state.our_state)
                asserted(is_valid) ==
                    IF ~is_valid.ok THEN AssertionError(is_valid.msg) ELSE transfer
            IN IF IsError(transfer) THEN transfer
               ELSE IF ~allow_invalid
               THEN Bind(Bind(LockedTransferSignedState(transfer), valid), asserted)
               ELSE transfer
        made(props) ==
            LET transfer_ == extract(props, "LockedTransferProperties").fields
                sender == props.fields.sender.val
                is_our == sender = channel_state.our_state.address
                is_partner == sender = channel_state.partner_state.address
                recipient == IF is_our THEN channel_state.partner_state.address
                             ELSE channel_state.our_state.address
                lock == Lock(transfer_.amount.val, transfer_.expiration.val,
                             sha3(<<transfer_.secret.val>>))
                merkletree ==
                    compute_merkletree_with(channel_state.partner_state.merkletree,
                        sha3(<<lock.amount, lock.expiration>> \o lock.secrethash))
                locksroot == IF compute_locksroot THEN Hash(merkleroot(merkletree))
                             ELSE transfer_.locksroot
                transfer_properties ==
                    IF only_transfer
                    THEN New("LockedTransferProperties",
                             [locksroot |-> locksroot,
                              canonical_identifier |->
                                  [cid |-> channel_state.canonical_identifier],
                              locked_amount |-> transfer_.amount])
                    ELSE New("LockedTransferProperties",
                             [locksroot |-> locksroot,
                              canonical_identifier |->
                                  [cid |-> channel_state.canonical_identifier]])
            IN IF ~allow_invalid
                  /\ ~expiration_is_valid(channel_state, transfer_.expiration.val)
               THEN AssertionError(
                        "Expiration must be between reveal_timeout and settle_timeout.")
               ELSE IF privatekey_to_address(props.fields.pkey.val) # sender
               THEN AssertionError(
                        "privatekey_to_address(properties.pkey) == properties.sender")
               ELSE IF ~is_our /\ ~is_partner
               THEN AssertionError("Given sender does not participate in given channel.")
               ELSE IF compute_locksroot /\ merkletree = <<>>
               THEN AttributeError("merkleroot of None")
               ELSE Bind(create(New("LockedTransferSignedStateProperties",
                                    [recipient |-> Val(recipient)]
                                        @@ transfer_properties.fields),
                                props, r),
                         checked)
    IN Bind(create_properties(
                IF properties_ # None THEN properties_
                ELSE New("LockedTransferSignedStateProperties", <<>>),
                IF defaults_ # None THEN defaults_
                ELSE SIGNED_TRANSFER_FOR_CHANNEL_DEFAULTS),
            made))

-----------------------------------------------------------------------------
(* The callers of create and create_properties: a properties object with a  *)
(* few fields set, with or without a defaults object of the same class.     *)

MaxSetFields == 1

RECURSIVE SubsetsUpTo(_, _)
SubsetsUpTo(S, n) ==
    IF n = 0 THEN {{}}
    ELSE LET T == SubsetsUpTo(S, n - 1) IN T \cup {t \cup {x} : t \in T, x \in S}

NestedClass(k) ==
    IF k \in {"our_state", "partner_state"} THEN "NettingChannelEndStateProperties"
    ELSE "TransactionExecutionStatusProperties"

IsNestedField(k) ==
    k \in {"our_state", "partner_state", "open_transaction", "close_transaction",
           "settle_transaction"}

\* The value caller w gives a field that holds no properties object.
ScalarValue(k, w) ==
    CASE k = "canonical_identifier" ->
            [cid |-> CanonicalIdentifier(UNIT_CHAIN_ID, UNIT_TOKEN_NETWORK_ADDRESS, w)]
      [] k \in {"locksroot", "message_hash"} -> Hash(sha3(<<w>>))
      [] k = "merkletree_leaves" -> [leaves |-> <<sha3(<<w>>), sha3(<<w + 2>>)>>]
      [] k = "merkletree_width" -> Val(w - 1)
      [] k = "signature" -> sign(Val(w), None)
      [] k \in {"sender", "address"} -> Val(privatekey_to_address(w))
      [] OTHER -> Val(w)

\* The objects of class cls with the fields of S set by caller w.
ObjectsSetting(cls, S, w) ==
    LET values == [k \in S |->
            IF IsNestedField(k)
            THEN {New(NestedClass(k), [j \in T |-> ScalarValue(j, w)]) :
                    T \in SubsetsUpTo(ClassFields(NestedClass(k)), 1)}
            ELSE {ScalarValue(k, w)}]
    IN {New(cls, kw) : kw \in {f \in [S -> UNION {values[k] : k \in S}] :
                                  \A k \in S : f[k] \in values[k]}}

PropertiesObjects(cls, n, w) ==
    UNION {ObjectsSetting(cls, S, w) : S \in SubsetsUpTo(ClassFields(cls), n)}

\* What make_address and make_merkletree_leaves draw during one call.
RandomDraws ==
    {[our |-> [address |-> 201 + i, leaves |-> <<<<8, 1 + i>>, <<8, 2 - i>>>>],
      partner |-> [address |-> 202 - i, leaves |-> <<<<8, 4 - i>>, <<8, 3 + i>>>>]] :
        i \in {0, 1}}

PropsIdle ==
    /\ properties = None /\ defaults = None /\ rnd = None
    /\ merged = None /\ entity = None /\ signed = None

TreeIdle ==
    /\ leaves1 = <<>> /\ leaves2 = <<>> /\ tree1 = None /\ tree2 = None
    /\ stored = None /\ restored = None

ChanIdle ==
    /\ chan = None /\ block = 0 /\ known = {}
    /\ last = None

MedIdle ==
    /\ med = None /\ medBlock = 0 /\ medKnown = FALSE /\ medOnchain = FALSE
    /\ medLast = None

NetIdle ==
    /\ tokenNetwork = None /\ netChannels = <<>> /\ netEvents = <<>>
    /\ netLast = None /\ netStored = None /\ netRestored = None

JsonIdle == jsonObj = None /\ jsonText = None /\ jsonBack = None

PropsInit ==
    /\ TreeIdle /\ ChanIdle /\ MedIdle /\ NetIdle /\ JsonIdle
    /\ \E cls \in PropertiesClasses :
          /\ properties \in PropertiesObjects(cls, MaxSetFields, 2)
          /\ defaults \in {None} \cup PropertiesObjects(cls, 1, 3)
    /\ rnd \in RandomDraws
    /\ merged = None /\ entity = None /\ signed = None

\* create_properties(properties, defaults) is called.
CallCreateProperties ==
    /\ merged = None
    /\ merged' = create_properties(properties, defaults)
    /\ UNCHANGED <<properties, defaults, rnd, entity, signed, outsideProps>>

\* create(properties, defaults) is called.
CallCreate ==
    /\ entity = None
    /\ entity' = create(properties, defaults, rnd)
    /\ signed' = IF properties.cls = "BalanceProofSignedStateProperties"
                    /\ create_properties(properties,
                           IF defaults # None THEN defaults
                           ELSE BalanceProofSignedStateDEFAULTS).fields.signature = GENERATE
                 THEN [signed |-> data_to_sign_BalanceProofSignedState(properties, defaults)]
                 ELSE None
    /\ UNCHANGED <<properties, defaults, rnd, merged, outsideProps>>

PropsNext == CallCreateProperties \/ CallCreate

SpecProps == PropsInit /\ [][PropsNext]_vars

-----------------------------------------------------------------------------
(* Claims about the properties factories *)

RECURSIVE HoldsEmpty(_)
\* Some field of the object, or of an object in it, is the EMPTY sentinel.
HoldsEmpty(v) ==
    IF v = EMPTY THEN TRUE
    ELSE IF "fields" \in DOMAIN v
         THEN \E k \in DOMAIN v.fields : HoldsEmpty(v.fields[k])
    ELSE IF "signature" \in DOMAIN v
         THEN v.signature.pkey = EMPTY \/ HoldsEmpty(v.signature.data)
    ELSE IF "balance_hash" \in DOMAIN v
         THEN \E k \in DOMAIN v : v[k] = EMPTY
    ELSE IF "signed" \in DOMAIN v THEN HoldsEmpty(v.signed)
    ELSE FALSE

\* C9: once create has returned an object, no field of the object and no value
\* it handed to the signer is the EMPTY sentinel, whatever the properties class
\* and with or without a defaults object.
C9_NoEmptyAfterCreate ==
    (entity # None /\ ~IsAssertionError(entity)) =>
        (~HoldsEmpty(entity) /\ ~HoldsEmpty(signed))

RECURSIVE Precedence(_, _, _, _)
\* m is p over d over D, field by field: p's value where p sets the field,
\* otherwise d's where d sets it, otherwise D's; where the value taken is a
\* properties object, it is merged in the same way with the objects below it.
\* d and D are None where there is no object at that level; below D stands the
\* DEFAULTS of the class.
Precedence(m, p, d, D) ==
    /\ IsProperties(m) /\ m.cls = p.cls
    /\ DOMAIN m.fields = ClassFields(p.cls)
    /\ \A k \in ClassFields(p.cls) :
        LET pv == p.fields[k]
            dv == IF IsProperties(d) THEN d.fields[k] ELSE EMPTY
            Dv == IF IsProperties(D) THEN D.fields[k] ELSE DEFAULTS(p.cls).fields[k]
            below(x) == IF IsProperties(x) THEN x ELSE None
        IN IF pv # EMPTY
           THEN IF IsProperties(pv)
                THEN Precedence(m.fields[k], pv, below(dv), below(Dv))
                ELSE m.fields[k] = pv
           ELSE IF dv # EMPTY
           THEN IF IsProperties(dv)
                THEN Precedence(m.fields[k], dv, None, below(Dv))
                ELSE m.fields[k] = dv
           ELSE m.fields[k] = Dv

\* C10: every field of create_properties(p, d) is p's value where p sets it,
\* else d's where d sets it, else the class DEFAULTS'; a nested properties
\* object is merged field by field under the same precedence.  p, d and the
\* DEFAULTS are frozen dataclasses that no step assigns to.
C10_CreatePropertiesPrecedence ==
    merged # None => Precedence(merged, properties, defaults, DEFAULTS(properties.cls))

\* A nested object of p met a nested object of d that sets another field, and
\* the merged nested object has both.
C10_Witness ==
    /\ merged # None /\ defaults # None
    /\ \E k \in DOMAIN properties.fields :
        /\ IsProperties(properties.fields[k]) /\ IsProperties(defaults.fields[k])
        /\ \E i, j \in DOMAIN properties.fields[k].fields :
            /\ i # j
            /\ properties.fields[k].fields[i] # EMPTY
            /\ defaults.fields[k].fields[j] # EMPTY
            /\ defaults.fields[k].fields[i] = EMPTY
            /\ merged.fields[k].fields[i] = properties.fields[k].fields[i]
            /\ merged.fields[k].fields[j] = defaults.fields[k].fields[j]

-----------------------------------------------------------------------------
(* Merkle trees: two nodes build the tree of one channel direction from     *)
(* leaves in their own order; a tree is stored as its leaf layer and        *)
(* restored from it.                                                        *)

MaxLeaves == 3

\* The lock hashes that can be leaves.
LeafPool == {sha3(<<i>>) : i \in 1..MaxLeaves}

\* The lists over S without repetition.
Orders(S) ==
    UNION {{o \in [1..n -> S] : \A i, j \in 1..n : i # j => o[i] # o[j]} :
              n \in 0..Cardinality(S)}

Permutations_(list) == {o \in Orders(SeqToSet(list)) : Len(o) = Len(list)}

\* eth_utils.to_hex(data): "0x" and two hex digits per byte.
RECURSIVE HexDigits(_)
HexDigits(data) ==
    IF data = <<>> THEN <<>>
    ELSE <<Head(data) \div 16, Head(data) % 16>> \o HexDigits(Tail(data))

serialize_bytes(data) == [prefix |-> "0x", digits |-> HexDigits(data)]

\* eth_utils.to_bytes(hexstr=data): one byte per two hex digits.
RECURSIVE FromHexDigits(_)
FromHexDigits(digits) ==
    IF Len(digits) < 2 THEN <<>>
    ELSE <<16 * digits[1] + digits[2]>> \o FromHexDigits(SubSeq(digits, 3, Len(digits)))

deserialize_bytes(data) == FromHexDigits(data.digits)

map_list(value_func(_), list) == [i \in 1..Len(list) |-> value_func(list[i])]

\* A bug serialize_merkletree_layers could have: the last layer, the root, is
\* written instead of the leaves.
serialize_root_layer(data) == map_list(serialize_bytes, data[Len(data)])

serialize_merkletree_layers(data) == map_list(serialize_bytes, data[LEAVES])

\* A bug deserialize_merkletree_layers could have: the stored list is hashed
\* up as it comes, without compute_layers putting it in order.
deserialize_as_stored(data) == layers_above(map_list(deserialize_bytes, data))

deserialize_merkletree_layers(data) ==
    LET elements == map_list(deserialize_bytes, data) IN compute_layers(elements)

\* The merkletree of create(NettingChannelEndStateProperties(merkletree_leaves=l)).
EndStateTree(l, r) ==
    create(New("NettingChannelEndStateProperties", [merkletree_leaves |-> [leaves |-> l]]),
           None, r).fields.merkletree.layers

TreeInit ==
    /\ PropsIdle /\ ChanIdle /\ MedIdle /\ NetIdle /\ JsonIdle
    /\ leaves1 \in Orders(LeafPool)
    /\ leaves2 \in Orders(LeafPool)
    /\ tree1 = None /\ tree2 = None /\ stored = None /\ restored = None

\* The first node creates its end state.
Build1 ==
    /\ tree1 = None
    /\ \E r \in RandomDraws : tree1' = [layers |-> EndStateTree(leaves1, r)]
    /\ UNCHANGED <<leaves1, leaves2, tree2, stored, restored, outsideTree>>

\* The second node creates its end state.
Build2 ==
    /\ tree2 = None
    /\ \E r \in RandomDraws : tree2' = [layers |-> EndStateTree(leaves2, r)]
    /\ UNCHANGED <<leaves1, leaves2, tree1, stored, restored, outsideTree>>

\* The first node's tree is written out.
Store ==
    /\ tree1 # None /\ stored = None
    /\ stored' = [list |-> serialize_merkletree_layers(tree1.layers)]
    /\ UNCHANGED <<leaves1, leaves2, tree1, tree2, restored, outsideTree>>

\* The stored list is read back, in the order the storage returns it.
Restore ==
    /\ stored # None /\ stored.list # <<>> /\ restored = None
    /\ \E list \in Permutations_(stored.list) :
          restored' = [layers |-> deserialize_merkletree_layers(list), from |-> list]
    /\ UNCHANGED <<leaves1, leaves2, tree1, tree2, stored, outsideTree>>

TreeNext == Build1 \/ Build2 \/ Store \/ Restore

SpecTree == TreeInit /\ [][TreeNext]_vars

\* C7: two trees built from the same set of distinct leaves have the same
\* layers and the same root, whatever the order of the leaves; a tree restored
\* from the stored leaf list in any order has the root of the original.
C7_OrderIndependent ==
    /\ (tree1 # None /\ tree2 # None /\ SeqToSet(leaves1) = SeqToSet(leaves2)) =>
          /\ tree1.layers = tree2.layers
          /\ merkleroot(tree1.layers) = merkleroot(tree2.layers)
    /\ (restored # None) =>
          /\ merkleroot(restored.layers) = merkleroot(tree1.layers)
          /\ restored.layers = tree1.layers

\* Three leaves were supplied in two different orders and restored in a third.
C7_Witness ==
    /\ tree1 # None /\ tree2 # None /\ restored # None
    /\ Len(leaves1) = 3 /\ SeqToSet(leaves1) = SeqToSet(leaves2)
    /\ leaves1 # leaves2
    /\ map_list(deserialize_bytes, restored.from) \notin {leaves1, leaves2}
    /\ Len(tree1.layers) = 3

-----------------------------------------------------------------------------
(* One channel between our node (HOP1) and a partner (UNIT_TRANSFER_SENDER): *)
(* the partner's messages arrive, valid or not, blocks pass and a secret is  *)
(* revealed.                                                                 *)

MaxNonce == 3
MaxBlock == 7

Secrets == {UNIT_SECRET, UNIT_SECRET + 1}
\* The amounts the partner locks: the unit amount and its whole deposit.
Amounts == {UNIT_TRANSFER_AMOUNT, NettingChannelEndStateDEFAULTS.fields.balance.val}
\* The expirations a transfer is given: none (the default), the first block
\* inside the window and the two bounds of the window.
Expirations ==
    {EMPTY, Val(UNIT_REVEAL_TIMEOUT + 1), Val(UNIT_REVEAL_TIMEOUT), Val(UNIT_SETTLE_TIMEOUT)}

\* How the partner's transfer is made: as the protocol asks, or off it in one
\* respect.
Variants ==
    LET valid == [step |-> 1, less |-> FALSE, only_transfer |-> FALSE,
                  compute_locksroot |-> TRUE, expiration |-> EMPTY]
    IN {[valid EXCEPT !.expiration = e] : e \in Expirations}
       \cup {[valid EXCEPT !.step = 0], [valid EXCEPT !.step = -1],
             [valid EXCEPT !.less = TRUE],
             [valid EXCEPT !.only_transfer = TRUE],
             [valid EXCEPT !.compute_locksroot = FALSE]}

Draw == CHOOSE r \in RandomDraws : TRUE

\* What the last step returned: ok and msg of the handler, the nonce of the
\* message, and as input the secrethash of an Unlock or a LockExpired or the
\* expiration of a factory call.
Event(kind, ok, msg, nonce, input) ==
    [kind |-> kind, ok |-> ok, msg |-> msg, nonce |-> nonce, input |-> input]

ChanInit ==
    /\ PropsIdle /\ TreeIdle /\ MedIdle /\ NetIdle /\ JsonIdle
    /\ chan = NettingChannelState(
                  create(New("NettingChannelStateProperties",
                             [our_state |-> New("NettingChannelEndStateProperties",
                                                [address |-> Val(HOP1)]),
                              partner_state |-> New("NettingChannelEndStateProperties",
                                                    [address |-> Val(UNIT_TRANSFER_SENDER)])]),
                         None, Draw))
    /\ block = UNIT_REVEAL_TIMEOUT + 1
    /\ known = {}
    /\ last = None

\* What the handlers of the partner's messages leave behind.
Handled(kind, handled, nonce, input) ==
    \E result \in {handled} :
        /\ chan' = result.channel
        /\ last' = Event(kind, result.ok, result.msg, nonce, input)
        /\ UNCHANGED <<block, known, outsideChan>>

\* A locked transfer of the partner, built by make_signed_transfer_for with
\* allow_invalid, is received.
ReceiveLockedTransfer ==
    \E v \in Variants, amount \in Amounts, secret \in Secrets :
        LET partner == chan.partner_state
            nonce == partner.nonce + v.step
            transfer == make_signed_transfer_for(chan,
                New("LockedTransferSignedStateProperties",
                    [nonce |-> Val(nonce), amount |-> Val(amount),
                     expiration |-> v.expiration, secret |-> Val(secret),
                     transferred_amount |->
                         Val(IF v.less THEN partner.transferred_amount - 1
                             ELSE partner.transferred_amount),
                     locked_amount |-> IF v.only_transfer THEN EMPTY
                                       ELSE Val(partner.locked_amount + amount)]),
                None, v.compute_locksroot, TRUE, v.only_transfer, Draw)
        IN /\ nonce <= MaxNonce
           /\ \E message \in {LockedTransferSignedState(t) :
                                 t \in {x \in {transfer} : ~IsError(x)}} :
                 Handled("LockedTransfer", handle_receive_lockedtransfer(chan, message),
                         nonce, None)

\* A locked transfer signed by someone else than the partner is received.
ReceiveForgedTransfer ==
    /\ chan.partner_state.nonce < MaxNonce
    /\ LET partner == chan.partner_state
           transfer == make_signed_transfer_for(chan,
               New("LockedTransferSignedStateProperties",
                   [nonce |-> Val(partner.nonce + 1),
                    transferred_amount |-> Val(partner.transferred_amount),
                    locked_amount |-> Val(partner.locked_amount + UNIT_TRANSFER_AMOUNT),
                    sender |-> Val(HOP1), pkey |-> Val(HOP1_KEY)]),
               None, TRUE, TRUE, FALSE, Draw)
       IN \E message \in {LockedTransferSignedState(t) :
                             t \in {x \in {transfer} : ~IsError(x)}} :
             Handled("LockedTransfer", handle_receive_lockedtransfer(chan, message),
                     partner.nonce + 1, None)

\* A locked transfer of the partner for another channel, built by create, is
\* received.
ReceiveTransferOfOtherChannel ==
    /\ chan.partner_state.nonce < MaxNonce
    /\ LET partner == chan.partner_state
           transfer == create(
               New("LockedTransferSignedStateProperties",
                   [nonce |-> Val(partner.nonce + 1),
                    transferred_amount |-> Val(partner.transferred_amount),
                    locked_amount |-> Val(partner.locked_amount + UNIT_TRANSFER_AMOUNT),
                    recipient |-> Val(HOP1)]),
               SIGNED_TRANSFER_FOR_CHANNEL_DEFAULTS, Draw)
       IN \E message \in {LockedTransferSignedState(transfer)} :
             Handled("LockedTransfer", handle_receive_lockedtransfer(chan, message),
                     partner.nonce + 1, None)

\* make_signed_transfer_for is called without allow_invalid.
MakeSignedTransfer ==
    \E amount \in Amounts, expiration \in Expirations, compute_locksroot \in {TRUE} :
       LET properties_ == New("LockedTransferSignedStateProperties",
                              [nonce |-> Val(chan.partner_state.nonce + 1),
                               amount |-> Val(amount), expiration |-> expiration])
       IN \E transfer \in {make_signed_transfer_for(chan, properties_, None,
                                                    compute_locksroot, FALSE, TRUE, Draw)} :
             /\ last' = Event("make_signed_transfer_for", ~IsError(transfer),
                              IF IsError(transfer) THEN transfer.fields.msg ELSE "",
                              chan.partner_state.nonce + 1,
                              [given |-> expiration,
                               expiration |->
                                   IF expiration # EMPTY THEN expiration.val
                                   ELSE SIGNED_TRANSFER_FOR_CHANNEL_DEFAULTS
                                            .fields.expiration.val])
             /\ UNCHANGED <<chan, block, known, outsideChan>>

\* The partner's Unlock for a secret is received, under the next nonce or a
\* stale one.
ReceiveUnlock ==
    \E secret \in Secrets, fresh \in BOOLEAN :
        LET sent == send_unlock(partner_view(chan), secret).unlock
            unlock == IF fresh THEN sent ELSE [sent EXCEPT !.nonce = @ - 1]
        IN \E message \in {unlock} :
              /\ message.nonce <= MaxNonce
              /\ Handled("Unlock", handle_unlock(chan, message, block), message.nonce,
                         sha3(<<secret>>))

\* The partner's LockExpired for a secrethash is received.
ReceiveLockExpired ==
    \E secret \in Secrets, fresh \in BOOLEAN :
        LET sent == send_lock_expired(partner_view(chan), sha3(<<secret>>)).expired
            expired == IF fresh THEN sent ELSE [sent EXCEPT !.nonce = @ - 1]
        IN \E message \in {expired} :
              /\ message.nonce <= MaxNonce
              /\ Handled("LockExpired",
                         handle_receive_lock_expired(chan, message, block, known),
                         message.nonce, sha3(<<secret>>))

\* Our node learns the secret of the payment.
ReceiveSecretReveal ==
    /\ UNIT_SECRET \notin known
    /\ known' = known \cup {UNIT_SECRET}
    /\ last' = Event("SecretReveal", TRUE, "", 0, None)
    /\ UNCHANGED <<chan, block, outsideChan>>

\* A block is mined.
NewBlock ==
    /\ block < MaxBlock
    /\ block' = block + 1
    /\ last' = Event("Block", TRUE, "", 0, None)
    /\ UNCHANGED <<chan, known, outsideChan>>

ChanNext ==
    \/ ReceiveLockedTransfer
    \/ ReceiveForgedTransfer
    \/ ReceiveTransferOfOtherChannel
    \/ MakeSignedTransfer
    \/ ReceiveUnlock
    \/ ReceiveLockExpired
    \/ ReceiveSecretReveal
    \/ NewBlock

SpecChan == ChanInit /\ [][ChanNext]_vars

-----------------------------------------------------------------------------
(* Claims about the channel *)

Last(kind) == last # None /\ last.kind = kind
MessageKinds == {"LockedTransfer", "Unlock", "LockExpired"}
InWindow(expiration) ==
    chan.reveal_timeout < expiration /\ expiration < chan.settle_timeout

\* C1: at every point of a run the sender's locked_amount is the sum of the
\* amounts of its pending locks, and its locksroot is the merkle root over
\* exactly the hashes of those locks, in whatever order they are taken, or the
\* root of the empty tree when no lock is pending.
C1_LockedAmountAndLocksroot ==
    chan # None =>
        \A end \in {chan.partner_state, chan.our_state} :
            LET hashes == {lockhash(l) : l \in end.pending}
            IN /\ end.locked_amount = Sum(end.pending, LAMBDA l : l.amount)
               /\ Cardinality(hashes) = Cardinality(end.pending)
               /\ IF end.pending = {} THEN end.locksroot = EMPTY_MERKLE_ROOT
                  ELSE \A o \in Orders(hashes) :
                          Len(o) = Cardinality(hashes)
                              => end.locksroot = merkleroot(compute_layers(o))

\* An Unlock was accepted while another lock stays pending.
C1_Witness ==
    /\ Last("Unlock") /\ last.ok
    /\ chan.partner_state.pending # {}
    /\ chan.partner_state.transferred_amount > 0

\* C2: a message of the partner whose nonce is not strictly greater than the
\* stored one is rejected and leaves the stored nonce; an accepted message has a
\* greater nonce, which becomes the stored one; so the stored nonce never
\* decreases and increases with every accepted balance proof.
C2_NonceStrictlyIncreases ==
    [][/\ chan'.partner_state.nonce >= chan.partner_state.nonce
       /\ last'.kind \in MessageKinds =>
            /\ last'.nonce <= chan.partner_state.nonce =>
                  ~last'.ok /\ chan'.partner_state.nonce = chan.partner_state.nonce
            /\ last'.ok =>
                  /\ chan'.partner_state.nonce > chan.partner_state.nonce
                  /\ chan'.partner_state.nonce = last'.nonce]_vars

\* A transfer with an older nonce was rejected after a newer one was accepted.
C2_Witness ==
    /\ Last("LockedTransfer") /\ ~last.ok
    /\ last.msg = "nonce did not increase"
    /\ last.nonce >= 1
    /\ last.nonce < chan.partner_state.nonce

\* C3: a received locked transfer that fails validation returns a reason and
\* leaves the channel state as it was, every field of both end states.
C3_RejectedTransferChangesNothing ==
    [][last'.kind = "LockedTransfer" /\ ~last'.ok
          => chan' = chan /\ last'.msg # ""]_vars

\* A transfer was rejected for insufficient capacity while a lock is pending.
C3_Witness ==
    /\ Last("LockedTransfer") /\ ~last.ok
    /\ last.msg = "insufficient capacity"
    /\ chan.partner_state.pending # {}

\* C4: every lock accepted on the channel has its expiration strictly inside
\* (reveal_timeout, settle_timeout); make_signed_transfer_for without
\* allow_invalid returns no transfer for an expiration on or outside a bound, by
\* its expiration assertion; and the expiration it takes when none is given is
\* settle_timeout - reveal_timeout of the defaults, inside the window.
C4_ExpirationWindow ==
    /\ chan # None => \A l \in chan.partner_state.pending : InWindow(l.expiration)
    /\ Last("make_signed_transfer_for") =>
          /\ ~InWindow(last.input.expiration) =>
                /\ ~last.ok
                /\ last.msg = "Expiration must be between reveal_timeout and settle_timeout."
          /\ last.ok => InWindow(last.input.expiration)
          /\ last.input.given = EMPTY =>
                /\ last.input.expiration = UNIT_SETTLE_TIMEOUT - UNIT_REVEAL_TIMEOUT
                /\ InWindow(last.input.expiration)

\* The factory refused an expiration equal to settle_timeout, on a channel that
\* holds an accepted lock.
C4_Witness ==
    /\ Last("make_signed_transfer_for") /\ ~last.ok
    /\ last.input.expiration = chan.settle_timeout
    /\ chan.partner_state.pending # {}

\* C6: a LockExpired of the partner under its next nonce, for a pending lock
\* whose expiration the block number has passed and whose secret is unknown, is
\* accepted; it removes that lock from the pending set and reduces
\* locked_amount by the lock's amount, and transferred_amount stays as it was.
C6_ExpiryFrame ==
    [][\A lock \in chan.partner_state.pending :
          /\ last'.kind = "LockExpired"
          /\ last'.input = lock.secrethash
          /\ last'.nonce = chan.partner_state.nonce + 1
          /\ block > lock.expiration
          /\ \A secret \in known : sha3(<<secret>>) # lock.secrethash
          => /\ last'.ok
             /\ chan'.partner_state.pending = chan.partner_state.pending \ {lock}
             /\ chan'.partner_state.locked_amount
                    = chan.partner_state.locked_amount - lock.amount
             /\ chan'.partner_state.transferred_amount
                    = chan.partner_state.transferred_amount]_vars

\* A lock expired while another one stays pending.
C6_Witness ==
    /\ Last("LockExpired") /\ last.ok
    /\ chan.partner_state.pending # {}

-----------------------------------------------------------------------------
(* make_channel_set and make_transfers_pair *)

\* ChannelSet.PKEYS and ChannelSet.ADDRESSES
PKEYS == <<HOP1_KEY, HOP2_KEY, HOP3_KEY, HOP4_KEY, HOP5_KEY>>
ADDRESSES == <<HOP1, HOP2, HOP3, HOP4, HOP5>>

\* The identifiers make_channel_identifier() can draw.
RandomChannelIds == 1001..1004

\* make_canonical_identifier: `channel_identifier or make_channel_identifier()`,
\* drawn being the identifier a call of make_channel_identifier() returns.
make_canonical_identifier(chain_identifier, token_network_address, channel_identifier, drawn) ==
    CanonicalIdentifier(chain_identifier, token_network_address,
        IF Falsy(channel_identifier) THEN drawn ELSE channel_identifier.val)

\* pkeys_from_channel_state(properties, defaults)
pkeys_from_channel_state(props, dflt) ==
    LET key(end_state) ==
            IF props.fields[end_state] # EMPTY
            THEN props.fields[end_state].fields.privatekey
            ELSE IF dflt # None
            THEN IF dflt.fields[end_state] = EMPTY
                 THEN AttributeError("privatekey of EMPTY")
                 ELSE dflt.fields[end_state].fields.privatekey
            ELSE None
    IN <<key("our_state"), key("partner_state")>>

ChannelSet(channels, our_privatekeys, partner_privatekeys) ==
    [channels |-> channels, our_privatekeys |-> our_privatekeys,
     partner_privatekeys |-> partner_privatekeys]

\* A Python list, as an argument that can also be None.
List(elements) == [list |-> elements]

\* make_channel_set(properties, defaults, number_of_channels): properties is a
\* list or None, number_of_channels a number or None.
make_channel_set(properties_, defaults_, number_of_channels_, r) ==
    IF number_of_channels_ = None /\ properties_ = None
    THEN Object("TypeError", [msg |-> "len(None)"])
    ELSE
    LET number_of_channels == IF number_of_channels_ = None THEN Len(properties_.list)
                              ELSE number_of_channels_.val
        given == IF properties_ = None THEN <<>> ELSE properties_.list
        padded == [i \in 1..(IF Len(given) < number_of_channels
                             THEN number_of_channels ELSE Len(given)) |->
                      IF i <= Len(given) THEN given[i]
                      ELSE New("NettingChannelStateProperties", <<>>)]
    IN Bind2(padded, defaults_, LAMBDA props, dflt :
           Bind([i \in 1..number_of_channels |-> pkeys_from_channel_state(props[i], dflt)],
                LAMBDA pkeys :
                    IF \E i \in 1..number_of_channels : \E j \in 1..2 : IsError(pkeys[i][j])
                    THEN AttributeError("privatekey of EMPTY")
                    ELSE ChannelSet(
                             [i \in 1..number_of_channels |->
                                 NettingChannelState(create(props[i], dflt, r))],
                             [i \in 1..number_of_channels |-> pkeys[i][1]],
                             [i \in 1..number_of_channels |-> pkeys[i][2]])))

\* ChannelSet.channel_map: {channel.identifier: channel for channel in channels},
\* a later channel replacing an earlier one under the same identifier.
channel_map(self) ==
    LET identifier(i) == self.channels[i].canonical_identifier.channel_identifier
    IN [id \in {identifier(i) : i \in 1..Len(self.channels)} |->
           LET i == CHOOSE i \in 1..Len(self.channels) :
                        /\ identifier(i) = id
                        /\ \A j \in 1..Len(self.channels) : identifier(j) = id => j <= i
           IN self.channels[i]]

\* mediator_make_channel_pair(defaults, amount)
mediator_make_channel_pair(defaults_, amount, r, drawn) ==
    LET properties_list ==
            <<New("NettingChannelStateProperties",
                  [canonical_identifier |->
                       [cid |-> make_canonical_identifier(UNIT_CHAIN_ID,
                                    UNIT_TOKEN_NETWORK_ADDRESS, Val(1), drawn)],
                   partner_state |-> New("NettingChannelEndStateProperties",
                                         [address |-> Val(UNIT_TRANSFER_SENDER),
                                          balance |-> Val(amount)])]),
              New("NettingChannelStateProperties",
                  [canonical_identifier |->
                       [cid |-> make_canonical_identifier(UNIT_CHAIN_ID,
                                    UNIT_TOKEN_NETWORK_ADDRESS, Val(2), drawn)],
                   our_state |-> New("NettingChannelEndStateProperties",
                                     [balance |-> Val(amount)]),
                   partner_state |-> New("NettingChannelEndStateProperties",
                                         [address |-> Val(UNIT_TRANSFER_TARGET)])])>>
    IN make_channel_set(List(properties_list), defaults_, None, r)

\* raiden.transfer.channel.get_distributable: what the sender can still lock.
get_distributable(sender, receiver) == get_balance(sender, receiver) - sender.locked_amount

\* mediator.is_channel_usable: the channel is open, its capacity covers the
\* amount and the lock's remaining time exceeds the channel's reveal timeout.
is_channel_usable(candidate_channel_state, transfer_amount, lock_timeout) ==
    /\ ~candidate_channel_state.closed
    /\ get_distributable(candidate_channel_state.our_state,
                         candidate_channel_state.partner_state) >= transfer_amount
    /\ lock_timeout > candidate_channel_state.reveal_timeout

MediationPairState(payer_transfer, payee_address, payee_transfer) ==
    [payer_transfer |-> payer_transfer, payee_address |-> payee_address,
     payee_transfer |-> payee_transfer]

MediatorTransfersPair(channels, transfers_pair, amount, block_number) ==
    [channels |-> channels, transfers_pair |-> transfers_pair, amount |-> amount,
     block_number |-> block_number]

\* The loop of make_transfers_pair from payer_index on (indices as in the code,
\* counted from 0): the pairs and the channels they leave, or the failed assert.
RECURSIVE transfers_pairs_from(_, _, _, _, _, _)
transfers_pairs_from(channels_, payer_index, transfers_pairs, amount, block_number, r) ==
    IF payer_index >= Len(channels_.channels) - 1
    THEN MediatorTransfersPair(channels_, transfers_pairs, amount, block_number)
    ELSE
    LET payee_index == payer_index + 1
        lock_expiration == block_number + UNIT_REVEAL_TIMEOUT * 2
        receiver_channel == channels_.channels[payer_index + 1]
        forwarded(channels, received_transfer) ==
            LET sent(lockedtransfer_event) ==
                    LET lock_timeout == lock_expiration - block_number
                    IN IF ~lockedtransfer_event.ok
                       THEN AssertionError("lockedtransfer_event")
                       ELSE IF ~is_channel_usable(lockedtransfer_event.channel, amount,
                                                  lock_timeout)
                       THEN AssertionError("mediator.is_channel_usable")
                       ELSE transfers_pairs_from(
                                [channels EXCEPT !.channels[payee_index + 1] =
                                    lockedtransfer_event.channel],
                                payer_index + 1,
                                Append(transfers_pairs,
                                       MediationPairState(received_transfer,
                                           lockedtransfer_event.recipient,
                                           lockedtransfer_event.transfer)),
                                amount, block_number, r)
            IN Bind(send_lockedtransfer(channels.channels[payee_index + 1], amount,
                                        lock_expiration, UNIT_SECRETHASH),
                    sent)
        received(created) ==
            LET handled(result) ==
                    IF ~result.ok THEN AssertionError(result.msg)
                    ELSE forwarded([channels_ EXCEPT !.channels[payer_index + 1] =
                                       result.channel],
                                   LockedTransferSignedState(created))
            IN IF IsError(created) THEN created
               ELSE Bind(handle_receive_lockedtransfer(receiver_channel,
                             LockedTransferSignedState(created)),
                         handled)
    IN Bind(create(New("LockedTransferSignedStateProperties",
                       [amount |-> Val(amount),
                        expiration |-> Val(lock_expiration),
                        payment_identifier |-> Val(UNIT_TRANSFER_IDENTIFIER),
                        canonical_identifier |->
                            [cid |-> receiver_channel.canonical_identifier],
                        sender |->
                            Val(channels_.channels[payer_index + 1].partner_state.address),
                        pkey |-> channels_.partner_privatekeys[payer_index + 1]]),
                   None, r),
            received)

\* make_transfers_pair(number_of_channels, amount, block_number); drawn is the
\* identifier make_channel_identifier() returns when it is called.
make_transfers_pair(number_of_channels, amount, block_number, r, drawn) ==
    LET deposit == 5 * amount
        dflt == create_properties(
            New("NettingChannelStateProperties",
                [our_state |-> New("NettingChannelEndStateProperties",
                                   [balance |-> Val(deposit)]),
                 partner_state |-> New("NettingChannelEndStateProperties",
                                       [balance |-> Val(deposit)]),
                 open_transaction |-> New("TransactionExecutionStatusProperties",
                                          [finished_block_number |-> Val(10)])]),
            None)
        properties_list ==
            [k \in 1..number_of_channels |->
                LET i == k - 1
                IN New("NettingChannelStateProperties",
                       [canonical_identifier |->
                            [cid |-> make_canonical_identifier(UNIT_CHAIN_ID,
                                         UNIT_TOKEN_NETWORK_ADDRESS, Val(i), drawn)],
                        our_state |-> New("NettingChannelEndStateProperties",
                                          [address |-> Val(ADDRESSES[1]),
                                           privatekey |-> Val(PKEYS[1])]),
                        partner_state |-> New("NettingChannelEndStateProperties",
                                              [address |-> Val(ADDRESSES[i + 2]),
                                               privatekey |-> Val(PKEYS[i + 2])])])]
    IN Bind(make_channel_set(List(properties_list), dflt, None, r),
            LAMBDA channels : transfers_pairs_from(channels, 0, <<>>, amount,
                                                   block_number, r))

-----------------------------------------------------------------------------
(* raiden.transfer.mediated_transfer.mediator: the mediator keeps the two   *)
(* hops of each mediation pair in step.  Pair i (counted from 1) has its    *)
(* payer lock in channels[i].partner_state and its payee lock in            *)
(* channels[i + 1].our_state.                                               *)

\* A bug is_safe_to_wait could have: a lock is never taken to near expiration.
always_safe_to_wait(lock_expiration, reveal_timeout, block_number) == TRUE

\* The payer lock does not near its expiration: more than reveal_timeout blocks
\* remain to claim it.
is_safe_to_wait(lock_expiration, reveal_timeout, block_number) ==
    block_number < lock_expiration - reveal_timeout

\* Secret propagation: with the secret learned, the payee side of every pair is
\* unlocked if its lock has not expired and the payer lock is pending and does
\* not near expiration.
RECURSIVE events_for_balanceproof(_, _, _, _, _)
events_for_balanceproof(channels, transfers_pair, i, block_number, secret) ==
    IF i > Len(transfers_pair) THEN channels
    ELSE LET payer_lock == transfers_pair[i].payer_transfer.lock
             payee_lock == transfers_pair[i].payee_transfer.lock
             unlocks == /\ payee_lock \in channels[i + 1].our_state.pending
                        /\ payer_lock \in channels[i].partner_state.pending
                        /\ block_number < payee_lock.expiration
                        /\ is_safe_to_wait(payer_lock.expiration,
                                           channels[i].reveal_timeout, block_number)
         IN Bind(IF unlocks
                 THEN [channels EXCEPT ![i + 1] = send_unlock(@, secret).channel]
                 ELSE channels,
                 LAMBDA unlocked :
                     events_for_balanceproof(unlocked, transfers_pair, i + 1,
                                             block_number, secret))

\* The fallback: the secret is registered on-chain when it is known and a
\* payer lock that is still pending nears its expiration.
events_for_onchain_secretreveal(channels, transfers_pair, block_number, secret_known) ==
    /\ secret_known
    /\ \E i \in 1..Len(transfers_pair) :
          LET payer_lock == transfers_pair[i].payer_transfer.lock
          IN /\ payer_lock \in channels[i].partner_state.pending
             /\ block_number < payer_lock.expiration
             /\ ~is_safe_to_wait(payer_lock.expiration, channels[i].reveal_timeout,
                                 block_number)

\* Expiry: the payee lock of every pair whose lock has expired is removed, with
\* a LockExpired to the payee.
RECURSIVE events_for_expired_pairs(_, _, _, _, _)
events_for_expired_pairs(channels, transfers_pair, i, block_number, secrets) ==
    IF i > Len(transfers_pair) THEN channels
    ELSE LET payee_lock == transfers_pair[i].payee_transfer.lock
             expires == /\ payee_lock \in channels[i + 1].our_state.pending
                        /\ is_lock_expired(payee_lock, block_number, secrets)
         IN Bind(IF expires
                 THEN [channels EXCEPT ![i + 1] =
                          send_lock_expired(@, payee_lock.secrethash).channel]
                 ELSE channels,
                 LAMBDA expired :
                     events_for_expired_pairs(expired, transfers_pair, i + 1,
                                              block_number, secrets))

-----------------------------------------------------------------------------
(* The mediator of make_transfers_pair at work: the secret is revealed, the *)
(* payers unlock or declare their locks expired, blocks are mined.          *)

MaxElapsed == 12
ChannelCounts == {2, 3}
BlockNumbers == {UNIT_REVEAL_TIMEOUT, UNIT_REVEAL_TIMEOUT + 1}

MedInit ==
    /\ PropsIdle /\ TreeIdle /\ ChanIdle /\ NetIdle /\ JsonIdle
    /\ MedIdle

MedRunning == med # None /\ ~IsError(med)
MedSecrets == IF medKnown THEN {UNIT_SECRET} ELSE {}
MedEvent(kind, ok, msg, pair) == [kind |-> kind, ok |-> ok, msg |-> msg, pair |-> pair]

\* A test calls make_transfers_pair.
MakeTransfersPair ==
    /\ med = None
    /\ \E number_of_channels \in ChannelCounts, block_number \in BlockNumbers,
          amount \in {UNIT_TRANSFER_AMOUNT, 2 * UNIT_TRANSFER_AMOUNT},
          drawn \in RandomChannelIds :
          \E made \in {make_transfers_pair(number_of_channels, amount, block_number,
                                           Draw, drawn)} :
             /\ med' = made
             /\ medBlock' = block_number
             /\ medLast' = MedEvent("make_transfers_pair", ~IsError(made), "", 0)
    /\ UNCHANGED <<medKnown, medOnchain, outsideMed>>

\* The mediator learns the secret, from a payee or off-channel.
MedReceiveSecretReveal ==
    /\ MedRunning /\ ~medKnown
    /\ \E channels \in {events_for_balanceproof(med.channels.channels, med.transfers_pair,
                                                1, medBlock, UNIT_SECRET)} :
          /\ med' = [med EXCEPT !.channels.channels = channels]
          /\ medOnchain' = events_for_onchain_secretreveal(channels, med.transfers_pair,
                                                           medBlock, TRUE)
    /\ medKnown' = TRUE
    /\ medLast' = MedEvent("SecretReveal", TRUE, "", 0)
    /\ UNCHANGED <<medBlock, outsideMed>>

\* The payer of a pair, to whom the mediator has passed the secret, sends its
\* Unlock.
ReceivePayerUnlock ==
    /\ MedRunning /\ medKnown
    /\ \E i \in 1..Len(med.transfers_pair) :
          /\ med.transfers_pair[i].payer_transfer.lock
                 \in med.channels.channels[i].partner_state.pending
          /\ \E handled \in {handle_unlock(
                                 med.channels.channels[i],
                                 send_unlock(partner_view(med.channels.channels[i]),
                                             UNIT_SECRET).unlock,
                                 medBlock)} :
                /\ med' = [med EXCEPT !.channels.channels[i] = handled.channel]
                /\ medLast' = MedEvent("Unlock", handled.ok, handled.msg, i)
    /\ UNCHANGED <<medBlock, medKnown, medOnchain, outsideMed>>

\* The payer of a pair declares its lock expired.
ReceivePayerLockExpired ==
    /\ MedRunning
    /\ \E i \in 1..Len(med.transfers_pair) :
          /\ med.transfers_pair[i].payer_transfer.lock
                 \in med.channels.channels[i].partner_state.pending
          /\ \E handled \in {handle_receive_lock_expired(
                                 med.channels.channels[i],
                                 send_lock_expired(partner_view(med.channels.channels[i]),
                                                   UNIT_SECRETHASH).expired,
                                 medBlock, MedSecrets)} :
                /\ med' = [med EXCEPT !.channels.channels[i] = handled.channel]
                /\ medLast' = MedEvent("LockExpired", handled.ok, handled.msg, i)
    /\ UNCHANGED <<medBlock, medKnown, medOnchain, outsideMed>>

\* A block is mined: the mediator registers the secret if a payer lock has
\* come near its expiration, and cleans up the pairs whose lock has expired.
MedNewBlock ==
    /\ MedRunning
    /\ medBlock < med.block_number + MaxElapsed
    /\ medBlock' = medBlock + 1
    /\ \E channels \in {events_for_expired_pairs(med.channels.channels, med.transfers_pair,
                                                 1, medBlock + 1, MedSecrets)} :
          /\ med' = [med EXCEPT !.channels.channels = channels]
          /\ medOnchain' = (medOnchain \/
                            events_for_onchain_secretreveal(channels, med.transfers_pair,
                                                            medBlock + 1, medKnown))
    /\ medLast' = MedEvent("Block", TRUE, "", 0)
    /\ UNCHANGED <<medKnown, outsideMed>>

MedNext ==
    \/ MakeTransfersPair
    \/ MedReceiveSecretReveal
    \/ ReceivePayerUnlock
    \/ ReceivePayerLockExpired
    \/ MedNewBlock

SpecMed == MedInit /\ [][MedNext]_vars

-----------------------------------------------------------------------------
(* Claims about the mediator *)

PayerEnd(i) == med.channels.channels[i].partner_state
PayeeEnd(i) == med.channels.channels[i + 1].our_state
PayerUnlocked(i) == PayerEnd(i).transferred_amount > 0
PayeeUnlocked(i) == PayeeEnd(i).transferred_amount > 0
Completed == \A i \in 1..Len(med.transfers_pair) : PayerUnlocked(i) /\ PayeeUnlocked(i)

\* The payer lock of pair i can still be unlocked: it is pending, the mediator
\* knows its secret, and it has not expired or its secret is registered on-chain.
PayerClaimHolds(i) ==
    LET lock == med.transfers_pair[i].payer_transfer.lock
    IN /\ lock \in PayerEnd(i).pending
       /\ medKnown
       /\ medBlock < lock.expiration \/ medOnchain

-----------------------------------------------------------------------------
(* raiden.transfer.token_network: the token network state and the topology  *)
(* events applied to it.  The routable graph is a networkx.Graph: a set of  *)
(* nodes and a set of undirected edges.                                     *)

Graph(nodes, edges) == [nodes |-> nodes, edges |-> edges]
add_edge(graph, u, v) == Graph(graph.nodes \cup {u, v}, graph.edges \cup {{u, v}})

TokenNetworkGraphState(network, channel_identifier_to_participants) ==
    [network |-> network,
     channel_identifier_to_participants |-> channel_identifier_to_participants]

TokenNetworkState(network_graph, channels, partners) ==
    [network_graph |-> network_graph,
     channelidentifiers_to_channels |-> channels,
     partneraddresses_to_channelidentifiers |-> partners]

\* A token network without channels and routes.
EmptyTokenNetworkState ==
    TokenNetworkState(TokenNetworkGraphState(Graph({}, {}), <<>>), <<>>, <<>>)

ContractReceiveChannelNew(channel_state) ==
    [type |-> "ContractReceiveChannelNew", channel_state |-> channel_state]
ContractReceiveRouteNew(canonical_identifier, participant1, participant2) ==
    [type |-> "ContractReceiveRouteNew", canonical_identifier |-> canonical_identifier,
     participant1 |-> participant1, participant2 |-> participant2]
ContractReceiveChannelClosed(canonical_identifier) ==
    [type |-> "ContractReceiveChannelClosed", canonical_identifier |-> canonical_identifier]

\* The entry key -> value put into a dictionary.
setitem(dict, key, value) == [k \in DOMAIN dict \cup {key} |-> IF k = key THEN value ELSE dict[k]]

\* Channel opened by us, whatever the state holds already: the channel state,
\* the partner's entry and the edge are inserted.
insert_channel(token_network_state, state_change) ==
    LET channel_state == state_change.channel_state
        channel_identifier == channel_state.canonical_identifier.channel_identifier
        our_address == channel_state.our_state.address
        partner_address == channel_state.partner_state.address
        graph == token_network_state.network_graph
        partners == token_network_state.partneraddresses_to_channelidentifiers
    IN TokenNetworkState(
           TokenNetworkGraphState(
               add_edge(graph.network, our_address, partner_address),
               setitem(graph.channel_identifier_to_participants, channel_identifier,
                       <<our_address, partner_address>>)),
           setitem(token_network_state.channelidentifiers_to_channels,
                   channel_identifier, channel_state),
           setitem(partners, partner_address,
                   Append(IF partner_address \in DOMAIN partners
                          THEN partners[partner_address] ELSE <<>>,
                          channel_identifier)))

\* A bug handle_channelnew could have: no duplicate detection.
inserts_again(token_network_state, state_change) ==
    insert_channel(token_network_state, state_change)

\* Channel opened by us: a channel identifier the state holds already is a
\* duplicate of the event and changes nothing.
handle_channelnew(token_network_state, state_change) ==
    IF state_change.channel_state.canonical_identifier.channel_identifier
           \in DOMAIN token_network_state.channelidentifiers_to_channels
    THEN token_network_state
    ELSE insert_channel(token_network_state, state_change)

\* Route discovered between two other participants: only the edge is inserted.
handle_newroute(token_network_state, state_change) ==
    LET graph == token_network_state.network_graph
    IN [token_network_state EXCEPT !.network_graph =
           TokenNetworkGraphState(
               add_edge(graph.network, state_change.participant1,
                        state_change.participant2),
               setitem(graph.channel_identifier_to_participants,
                       state_change.canonical_identifier.channel_identifier,
                       <<state_change.participant1, state_change.participant2>>))]

\* Channel closed on-chain: a channel of ours accepts no transfers from now on.
handle_closed(token_network_state, state_change) ==
    LET channel_identifier == state_change.canonical_identifier.channel_identifier
    IN IF channel_identifier \in DOMAIN token_network_state.channelidentifiers_to_channels
       THEN [token_network_state EXCEPT
                !.channelidentifiers_to_channels[channel_identifier].closed = TRUE]
       ELSE token_network_state

\* token_network.state_transition: apply(topology_event) -> new_state
state_transition(token_network_state, state_change) ==
    CASE state_change.type = "ContractReceiveChannelNew" ->
             handle_channelnew(token_network_state, state_change)
      [] state_change.type = "ContractReceiveRouteNew" ->
             handle_newroute(token_network_state, state_change)
      [] state_change.type = "ContractReceiveChannelClosed" ->
             handle_closed(token_network_state, state_change)

-----------------------------------------------------------------------------
(* raiden.utils.serialization: the routable graph *)

TypeError(msg) == Object("TypeError", [msg |-> msg])

\* typing.Address is bytes: what privatekey_to_address returns.
isinstance_bytes(o) == o \in {privatekey_to_address(key) : key \in 1..9}

\* graph.edges: one tuple per edge, lower end first.
graph_edges(graph) ==
    {e \in graph.nodes \X graph.nodes : e[1] <= e[2] /\ {e[1], e[2]} \in graph.edges}

RECURSIVE list_of(_)
\* [edge for edge in edges]
list_of(edges) ==
    IF edges = {} THEN <<>>
    ELSE LET edge == CHOOSE e \in edges :
                         \A f \in edges : e[1] < f[1] \/ (e[1] = f[1] /\ e[2] <= f[2])
         IN <<edge>> \o list_of(edges \ {edge})

\* json.dumps(obj) of a list of tuples with the default encoder: a tuple is
\* written as an array, an int as a number, and bytes are refused.
json_dumps(obj) ==
    IF \E i \in 1..Len(obj) : \E j \in 1..Len(obj[i]) : isinstance_bytes(obj[i][j])
    THEN TypeError("Object of type bytes is not JSON serializable")
    ELSE [json |-> [i \in 1..Len(obj) |-> [array |-> obj[i]]]]

\* json.loads(data): an array is read as a list.
json_loads(data) == [i \in 1..Len(data.json) |-> data.json[i].array]

serialize_networkx_graph(graph) == json_dumps(list_of(graph_edges(graph)))

RECURSIVE networkx_Graph(_)
\* networkx.Graph(edge_list): the graph of the listed edges and their ends.
networkx_Graph(edge_list) ==
    IF edge_list = <<>> THEN Graph({}, {})
    ELSE add_edge(networkx_Graph(Tail(edge_list)), Head(edge_list)[1], Head(edge_list)[2])

deserialize_networkx_graph(data) == networkx_Graph(json_loads(data))

-----------------------------------------------------------------------------
(* create_network *)

RouteProperties(address1, address2, capacity1to2, capacity2to1) ==
    [address1 |-> address1, address2 |-> address2, capacity1to2 |-> capacity1to2,
     capacity2to1 |-> capacity2to1]

\* route_properties_to_channel(route); drawn is the identifier that
\* make_channel_identifier() returns.
route_properties_to_channel(route, r, drawn) ==
    NettingChannelState(
        create(New("NettingChannelStateProperties",
                   [canonical_identifier |->
                        [cid |-> make_canonical_identifier(UNIT_CHAIN_ID,
                                     UNIT_TOKEN_NETWORK_ADDRESS, None, drawn)],
                    our_state |-> New("NettingChannelEndStateProperties",
                                      [address |-> Val(route.address1),
                                       balance |-> Val(route.capacity1to2)]),
                    partner_state |-> New("NettingChannelEndStateProperties",
                                          [address |-> Val(route.address2),
                                           balance |-> Val(route.capacity2to1)])]),
               None, r))

\* One round of the loop of create_network, for the count-th route: the state
\* change made from the route, the channel created for it (None if none is),
\* the state after the state change, and whether the two asserts hold.
create_network_round(state, our_address, route, count, r, drawn) ==
    LET applied(state_change) ==
            LET new_state == state_transition(state, state_change)
                graph == new_state.network_graph
            IN [state_change |-> state_change,
                channel |-> IF route.address1 = our_address
                            THEN state_change.channel_state ELSE None,
                new_state |-> new_state,
                asserted |->
                    /\ Cardinality(DOMAIN graph.channel_identifier_to_participants) = count
                    /\ Cardinality(graph.network.edges) = count]
    IN Bind(IF route.address1 = our_address
            THEN ContractReceiveChannelNew(route_properties_to_channel(route, r, drawn))
            ELSE ContractReceiveRouteNew(
                     make_canonical_identifier(UNIT_CHAIN_ID, UNIT_TOKEN_NETWORK_ADDRESS,
                                               None, drawn),
                     route.address1, route.address2),
            applied)

-----------------------------------------------------------------------------
(* A token network built by create_network for our node HOP1, whose on-chain *)
(* events can be delivered more than once.                                   *)

MaxRoutes == 3

\* The routes a test passes: ours in either direction, and one between others.
Routes ==
    {RouteProperties(HOP1, HOP2, UNIT_TRANSFER_AMOUNT, 0),
     RouteProperties(HOP1, HOP3, UNIT_TRANSFER_AMOUNT, UNIT_TRANSFER_AMOUNT),
     RouteProperties(HOP2, HOP1, UNIT_TRANSFER_AMOUNT, 0),
     RouteProperties(HOP2, HOP3, UNIT_TRANSFER_AMOUNT, 0)}

\* The channel identifiers in use; make_channel_identifier() draws another one.
UsedChannelIds == DOMAIN tokenNetwork.network_graph.channel_identifier_to_participants

NetEvent(kind, ok, state_change) == [kind |-> kind, ok |-> ok, state_change |-> state_change]

NetInit ==
    /\ PropsIdle /\ TreeIdle /\ ChanIdle /\ MedIdle /\ JsonIdle
    /\ tokenNetwork = EmptyTokenNetworkState
    /\ netChannels = <<>>
    /\ netEvents = <<>>
    /\ netLast = None
    /\ netStored = None /\ netRestored = None

NetRunning == IF netLast = None THEN TRUE ELSE netLast.ok

\* create_network goes once more through its loop, with the next route.
ApplyRoute ==
    /\ NetRunning
    /\ Len(netEvents) < MaxRoutes
    /\ \E route \in Routes, drawn \in RandomChannelIds \ UsedChannelIds :
          \E round \in {create_network_round(tokenNetwork, HOP1, route,
                                             Len(netEvents) + 1, Draw, drawn)} :
             /\ tokenNetwork' = round.new_state
             /\ netChannels' = IF round.channel # None
                               THEN Append(netChannels, round.channel) ELSE netChannels
             /\ netEvents' = Append(netEvents, round.state_change)
             /\ netLast' = NetEvent("create_network", round.asserted, round.state_change)
    /\ UNCHANGED <<netStored, netRestored, outsideNet>>

\* A channel of ours is closed on-chain.
ReceiveChannelClosed ==
    /\ NetRunning
    /\ \E channel_identifier \in DOMAIN tokenNetwork.channelidentifiers_to_channels :
          LET channel_state == tokenNetwork.channelidentifiers_to_channels[channel_identifier]
          IN /\ ~channel_state.closed
             /\ \E state_change \in
                       {ContractReceiveChannelClosed(channel_state.canonical_identifier)} :
                   /\ tokenNetwork' = state_transition(tokenNetwork, state_change)
                   /\ netLast' = NetEvent("closed", TRUE, state_change)
    /\ UNCHANGED <<netChannels, netEvents, netStored, netRestored, outsideNet>>

\* A channel-opened event that was applied before is delivered again.
RedeliverChannelNew ==
    /\ NetRunning
    /\ \E k \in 1..Len(netEvents) :
          /\ netEvents[k].type = "ContractReceiveChannelNew"
          /\ tokenNetwork' = state_transition(tokenNetwork, netEvents[k])
          /\ netLast' = NetEvent("redelivered", TRUE, netEvents[k])
    /\ UNCHANGED <<netChannels, netEvents, netStored, netRestored, outsideNet>>

\* The routable graph is written out.
SerializeGraph ==
    /\ NetRunning
    /\ netStored = None
    /\ \E graph \in {tokenNetwork.network_graph.network} :
          \E data \in {serialize_networkx_graph(graph)} :
             /\ netStored' = [graph |-> graph, data |-> data]
             /\ netLast' = NetEvent("serialize_networkx_graph", ~IsError(data), None)
    /\ UNCHANGED <<tokenNetwork, netChannels, netEvents, netRestored, outsideNet>>

\* The stored graph is read back.
DeserializeGraph ==
    /\ NetRunning
    /\ netStored # None /\ netRestored = None
    /\ netRestored' = deserialize_networkx_graph(netStored.data)
    /\ netLast' = NetEvent("deserialize_networkx_graph", TRUE, None)
    /\ UNCHANGED <<tokenNetwork, netChannels, netEvents, netStored, outsideNet>>

NetNext ==
    \/ ApplyRoute
    \/ ReceiveChannelClosed
    \/ RedeliverChannelNew
    \/ SerializeGraph
    \/ DeserializeGraph

SpecNet == NetInit /\ [][NetNext]_vars

-----------------------------------------------------------------------------
(* Claims about the token network *)

\* C8: applying a channel-opened event that was applied before changes nothing
\* in the token network state: the channel map, the participant-pair map and
\* the routable graph stay as they are.
C8_ChannelOpenedIsIdempotent ==
    [][netLast'.kind = "redelivered" =>
          /\ tokenNetwork'.channelidentifiers_to_channels =
                 tokenNetwork.channelidentifiers_to_channels
          /\ tokenNetwork'.partneraddresses_to_channelidentifiers =
                 tokenNetwork.partneraddresses_to_channelidentifiers
          /\ tokenNetwork'.network_graph = tokenNetwork.network_graph
          /\ tokenNetwork' = tokenNetwork]_vars

\* A channel-opened event was delivered again after its channel had changed.
C8_Witness ==
    /\ netLast # None /\ netLast.kind = "redelivered"
    /\ LET channel_state == netLast.state_change.channel_state
       IN tokenNetwork.channelidentifiers_to_channels[
              channel_state.canonical_identifier.channel_identifier] # channel_state
    /\ Len(netEvents) > 1

\* C11: after create_network has applied the state change of its k-th route,
\* the graph holds exactly k channel identifiers and exactly k edges, for every
\* list of routes.
C11_GraphCountsRoutes ==
    LET graph == tokenNetwork.network_graph
    IN /\ Cardinality(DOMAIN graph.channel_identifier_to_participants) = Len(netEvents)
       /\ Cardinality(graph.network.edges) = Len(netEvents)

\* C12: create_network applies a channel-opened event and returns the channel
\* for every route that has our address (HOP1) as address1 or as address2, and
\* applies a route-discovered event, returning no channel, for every other route.
C12_ChannelForEveryOwnRoute ==
    /\ \A k \in 1..Len(netEvents) :
          IF netEvents[k].type = "ContractReceiveRouteNew"
          THEN HOP1 \notin {netEvents[k].participant1, netEvents[k].participant2}
          ELSE /\ HOP1 \in {netEvents[k].channel_state.our_state.address,
                            netEvents[k].channel_state.partner_state.address}
               /\ netEvents[k].channel_state \in SeqToSet(netChannels)
    /\ Len(netChannels) =
           Cardinality({k \in 1..Len(netEvents) :
                           netEvents[k].type = "ContractReceiveChannelNew"})

\* C13: a tree computed by compute_layers and written by
\* serialize_merkletree_layers is read back by deserialize_merkletree_layers
\* with the same layers, from the leaves to the root, although only the leaf
\* layer is written.
C13_LayersRoundTrip ==
    /\ (tree1 # None /\ leaves1 # <<>>) =>
          /\ tree1.layers = compute_layers(leaves1)
          /\ deserialize_merkletree_layers(serialize_merkletree_layers(tree1.layers))
                 = tree1.layers
    /\ (restored # None /\ restored.from = stored.list) =>
          /\ Len(restored.layers) = Len(tree1.layers)
          /\ \A i \in 1..Len(tree1.layers) : restored.layers[i] = tree1.layers[i]
          /\ Len(stored.list) = Len(tree1.layers[LEAVES])

\* A tree of three leaves and three layers was stored and read back in the
\* stored order.
C13_Witness ==
    /\ restored # None /\ restored.from = stored.list
    /\ Len(leaves1) = 3 /\ Len(tree1.layers) = 3
    /\ Len(stored.list) = 3
    /\ merkleroot(restored.layers) \notin SeqToSet(tree1.layers[LEAVES])

\* C14: every routable graph a token network reaches is written by
\* serialize_networkx_graph without an error and read back by
\* deserialize_networkx_graph with the same nodes and the same edges.
C14_GraphRoundTrip ==
    /\ (netStored # None) => ~IsError(netStored.data)
    /\ (netRestored # None) =>
          /\ netRestored.nodes = netStored.graph.nodes
          /\ netRestored.edges = netStored.graph.edges

-----------------------------------------------------------------------------
(* raiden.utils.serialization: RaidenJSONEncoder and RaidenJSONDecoder.     *)
(* Python values carry their type in the field py, JSON values in the field *)
(* json; a dict and a JSON object are functions from keys to values.        *)

PyInt(n) == [py |-> "int", v |-> n]
PyStr(s) == [py |-> "str", v |-> s]
PyDict(items) == [py |-> "dict", items |-> items]
PyObject(module, class, attrs) ==
    [py |-> "object", module |-> module, class |-> class, attrs |-> attrs]

JNumber(n) == [json |-> "number", v |-> n]
JString(s) == [json |-> "string", v |-> s]
JObject(members) == [json |-> "object", members |-> members]

\* The classes of the objects that are encoded: Scalar, Holder and Mapping
\* define to_dict and from_dict, Opaque defines neither.
StateModule == "raiden.transfer.state"
Modules == {StateModule}
ModuleClasses(module) == {"Scalar", "Holder", "Mapping", "Opaque"}
hasattr_to_dict(class) == class \in {"Scalar", "Holder", "Mapping"}
hasattr_from_dict(class) == class \in {"Scalar", "Holder", "Mapping"}

InitArgs(class) ==
    CASE class = "Scalar" -> {"amount"}
      [] class = "Holder" -> {"inner", "amount"}
      [] class = "Mapping" -> {"entries"}
      [] class = "Opaque" -> {"handle"}

\* obj.to_dict(): one entry per attribute.
to_dict(obj) == PyDict(obj.attrs)

\* klass.from_dict(data): the attributes are taken from their entries; the
\* inverse of to_dict.
from_dict(klass, data) ==
    PyObject(klass.module, klass.class, [k \in InitArgs(klass.class) |-> data.items[k]])

\* f'{obj.__module__}.{obj.__class__.__name__}'
type_name(obj) == PyStr(<<obj.module, obj.class>>)

\* RaidenJSONEncoder.default
default(obj) ==
    IF hasattr_to_dict(obj.class)
    THEN PyDict(setitem(to_dict(obj).items, "_type", type_name(obj)))
    ELSE TypeError("Object is not JSON serializable")

RECURSIVE json_encode(_)
\* json.dumps(obj, cls=RaidenJSONEncoder): default is asked for what json
\* cannot write itself, and its result is written in its place.
json_encode(obj) ==
    CASE obj.py = "int" -> JNumber(obj.v)
      [] obj.py = "str" -> JString(obj.v)
      [] obj.py = "dict" ->
             Bind([k \in DOMAIN obj.items |-> json_encode(obj.items[k])], LAMBDA members :
                 IF \E k \in DOMAIN members : IsError(members[k])
                 THEN members[CHOOSE k \in DOMAIN members : IsError(members[k])]
                 ELSE JObject(members))
      [] obj.py = "object" ->
             Bind(default(obj), LAMBDA result :
                 IF IsError(result) THEN result ELSE json_encode(result))

\* RaidenJSONDecoder._import_type
_import_type(name) ==
    IF name[1] \notin Modules
    THEN Object("ModuleNotFoundError", [msg |-> "No module"])
    ELSE IF name[2] \notin ModuleClasses(name[1])
    THEN TypeError("Could not find")
    ELSE [module |-> name[1], class |-> name[2]]

\* json.JSONDecoder.object_hook(data): the class json.JSONDecoder has no
\* attribute object_hook, only its instances have one.
JSONDecoder_object_hook(data) ==
    AttributeError("type object 'JSONDecoder' has no attribute 'object_hook'")

\* RaidenJSONDecoder.object_hook
object_hook(data) ==
    IF "_type" \in DOMAIN data.items
    THEN Bind(_import_type(data.items["_type"].v), LAMBDA klass :
             IF IsError(klass) THEN klass
             ELSE IF hasattr_from_dict(klass.class) THEN from_dict(klass, data)
             ELSE JSONDecoder_object_hook(data))
    ELSE JSONDecoder_object_hook(data)

RECURSIVE json_decode(_)
\* json.loads(obj, cls=RaidenJSONDecoder): object_hook is called with every
\* JSON object, the inner ones first.
json_decode(obj) ==
    CASE obj.json = "number" -> PyInt(obj.v)
      [] obj.json = "string" -> PyStr(obj.v)
      [] obj.json = "object" ->
             Bind([k \in DOMAIN obj.members |-> json_decode(obj.members[k])], LAMBDA items :
                 IF \E k \in DOMAIN items : IsError(items[k])
                 THEN items[CHOOSE k \in DOMAIN items : IsError(items[k])]
                 ELSE object_hook(PyDict(items)))

MaxJsonInt == 1

JsonInts == {PyInt(n) : n \in 0..MaxJsonInt}

\* Objects without objects inside.
Scalars == {PyObject(StateModule, "Scalar", [amount |-> n]) : n \in JsonInts}
Opaques == {PyObject(StateModule, "Opaque", [handle |-> PyInt(0)])}

\* Objects with a dict among their attributes, empty or with one entry.
Mappings ==
    {PyObject(StateModule, "Mapping", [entries |-> PyDict([k \in keys |-> value])]) :
        keys \in {{}, {"a"}}, value \in JsonInts \cup Scalars}

\* Objects with objects inside, one and two levels deep.
Holders(inners) ==
    {PyObject(StateModule, "Holder", [inner |-> inner, amount |-> n]) :
        inner \in inners, n \in JsonInts}

JsonObjects ==
    Scalars \cup Opaques \cup Mappings \cup Holders(Scalars \cup Opaques \cup Mappings)
        \cup Holders(Holders(Scalars \cup Opaques \cup Mappings))

JsonInit ==
    /\ PropsIdle /\ TreeIdle /\ ChanIdle /\ MedIdle /\ NetIdle
    /\ jsonObj \in JsonObjects
    /\ jsonText = None /\ jsonBack = None

JsonEncode ==
    /\ jsonObj # None /\ jsonText = None
    /\ jsonText' = json_encode(jsonObj)
    /\ UNCHANGED <<jsonObj, jsonBack, outsideJson>>

JsonDecode ==
    /\ jsonText # None /\ ~IsError(jsonText) /\ jsonBack = None
    /\ jsonBack' = json_decode(jsonText)
    /\ UNCHANGED <<jsonObj, jsonText, outsideJson>>

\* Well-formed JSON that json_encode did not write: objects without _type,
\* empty or not, alone or inside a typed object; a _type naming a class without
\* from_dict, a class absent from its module, a module that does not exist,
\* and a class that can be rebuilt.
JsonTexts ==
    LET typed(module, class, members) ==
            JObject(setitem(members, "_type", JString(<<module, class>>)))
        plain == {JObject([k \in keys |-> JNumber(0)]) : keys \in {{}, {"a"}}}
    IN plain
         \cup {typed(StateModule, "Opaque", [handle |-> JNumber(0)]),
               typed(StateModule, "Missing", [amount |-> JNumber(0)]),
               typed("raiden.missing", "Scalar", [amount |-> JNumber(0)]),
               typed(StateModule, "Scalar", [amount |-> JNumber(0)])}
         \cup {typed(StateModule, "Holder", [inner |-> o, amount |-> JNumber(0)]) :
                  o \in plain}

\* A text arrives from elsewhere, to be decoded.
JsonReceive ==
    /\ jsonText = None
    /\ jsonObj' = None
    /\ jsonText' \in JsonTexts
    /\ UNCHANGED <<jsonBack, outsideJson>>

JsonNext == JsonEncode \/ JsonDecode \/ JsonReceive

SpecJson == JsonInit /\ [][JsonNext]_vars

\* Whether a value has a dict or an object without to_dict somewhere inside.
RECURSIVE HasDict(_)
HasDict(obj) ==
    CASE obj.py \in {"int", "str"} -> FALSE
      [] obj.py = "dict" -> TRUE
      [] obj.py = "object" -> \E k \in DOMAIN obj.attrs : HasDict(obj.attrs[k])

RECURSIVE HasOpaque(_)
HasOpaque(obj) ==
    CASE obj.py \in {"int", "str"} -> FALSE
      [] obj.py = "dict" -> \E k \in DOMAIN obj.items : HasOpaque(obj.items[k])
      [] obj.py = "object" ->
             ~hasattr_to_dict(obj.class) \/ \E k \in DOMAIN obj.attrs : HasOpaque(obj.attrs[k])

\* C15: an object whose class, and the class of every object inside it, has
\* to_dict and from_dict as inverses is written by json_encode and read back
\* by json_decode as an equal object of the same class.
C15_ObjectRoundTrip ==
    (jsonObj # None /\ ~HasOpaque(jsonObj)) =>
        /\ (jsonText # None) => ~IsError(jsonText)
        /\ (jsonBack # None) => jsonBack = jsonObj

-----------------------------------------------------------------------------
(* Calls of the factories: a test calls make_signed_transfer_for for a      *)
(* channel it has made; last holds the call and what it returned.           *)

\* The channels the transfers are made for: HOP1 with UNIT_TRANSFER_SENDER
\* under the default identifier, and HOP2 with HOP1 under another one.
CallChannels ==
    {NettingChannelState(
         create(New("NettingChannelStateProperties",
                    [canonical_identifier |->
                         [cid |-> make_canonical_identifier(UNIT_CHAIN_ID,
                                      UNIT_TOKEN_NETWORK_ADDRESS, Val(c.id), c.id)],
                     our_state |-> New("NettingChannelEndStateProperties",
                                       [address |-> Val(c.our)]),
                     partner_state |-> New("NettingChannelEndStateProperties",
                                           [address |-> Val(c.partner)])]),
                None, Draw)) :
        c \in {[id |-> DEFAULT_CHANNEL_ID, our |-> HOP1, partner |-> UNIT_TRANSFER_SENDER],
               [id |-> UNIT_CHANNEL_ID, our |-> HOP2, partner |-> HOP1]}}

\* Who signs: a sender and a key, belonging together or not.
CallSenders == {HOP1, HOP2, UNIT_TRANSFER_SENDER}
CallKeys == {HOP1_KEY, HOP2_KEY, UNIT_TRANSFER_PKEY}

\* The channel the properties name: none, or one that is not the channel's.
CallIdentifiers ==
    {EMPTY, [cid |-> CanonicalIdentifier(UNIT_CHAIN_ID, UNIT_TOKEN_NETWORK_ADDRESS, 8)]}

CallInit ==
    /\ PropsIdle /\ TreeIdle /\ MedIdle /\ NetIdle /\ JsonIdle
    /\ chan \in CallChannels
    /\ block = 0 /\ known = {}
    /\ last = None

Call(kind, args, returned) ==
    [kind |-> kind, ok |-> ~IsError(returned), args |-> args, returned |-> returned]

\* make_signed_transfer_for(chan, properties, defaults, ...)
CallMakeSignedTransferFor ==
    /\ \E sender \in CallSenders, pkey \in CallKeys, canonical_identifier \in CallIdentifiers,
          in_defaults \in BOOLEAN, allow_invalid \in BOOLEAN :
          \E given \in {New("LockedTransferSignedStateProperties",
                            [sender |-> Val(sender), pkey |-> Val(pkey),
                             canonical_identifier |-> canonical_identifier])} :
             \E transfer \in {IF in_defaults
                              THEN make_signed_transfer_for(chan, None, given, TRUE,
                                                            allow_invalid, TRUE, Draw)
                              ELSE make_signed_transfer_for(chan, given, None, TRUE,
                                                            allow_invalid, TRUE, Draw)} :
                last' = Call("make_signed_transfer_for",
                             [sender |-> sender, pkey |-> pkey,
                              canonical_identifier |-> canonical_identifier,
                              in_defaults |-> in_defaults, allow_invalid |-> allow_invalid],
                             transfer)
    /\ UNCHANGED <<chan, block, known, outsideChan>>

\* The channel identifiers a caller supplies: none, 0 and two others.
SuppliedIdentifiers == {None, Val(0), Val(1), Val(UNIT_CHANNEL_ID)}

\* make_canonical_identifier(channel_identifier=...), with the identifier that
\* make_channel_identifier() draws if it is called.
CallMakeCanonicalIdentifier ==
    /\ \E channel_identifier \in SuppliedIdentifiers, drawn \in RandomChannelIds :
          last' = Call("make_canonical_identifier",
                       [channel_identifier |-> channel_identifier, drawn |-> drawn],
                       [cid |-> make_canonical_identifier(UNIT_CHAIN_ID,
                                    UNIT_TOKEN_NETWORK_ADDRESS, channel_identifier, drawn)])
    /\ UNCHANGED <<chan, block, known, outsideChan>>

\* make_transfers_pair(number_of_channels), with the default amount and block.
CallMakeTransfersPair ==
    /\ \E number_of_channels \in ChannelCounts, drawn \in RandomChannelIds :
          last' = Call("make_transfers_pair",
                       [number_of_channels |-> number_of_channels, drawn |-> drawn],
                       make_transfers_pair(number_of_channels, UNIT_TRANSFER_AMOUNT, 5,
                                           Draw, drawn))
    /\ UNCHANGED <<chan, block, known, outsideChan>>

\* The per-channel properties a caller gives: one with a partner without a
\* key, one with both ends and their keys, one with nothing set.
CallProperties ==
    <<New("NettingChannelStateProperties",
          [canonical_identifier |->
               [cid |-> CanonicalIdentifier(UNIT_CHAIN_ID, UNIT_TOKEN_NETWORK_ADDRESS, 1)],
           partner_state |-> New("NettingChannelEndStateProperties",
                                 [address |-> Val(UNIT_TRANSFER_SENDER)])]),
      New("NettingChannelStateProperties",
          [canonical_identifier |->
               [cid |-> CanonicalIdentifier(UNIT_CHAIN_ID, UNIT_TOKEN_NETWORK_ADDRESS, 2)],
           our_state |-> New("NettingChannelEndStateProperties",
                             [address |-> Val(HOP1), privatekey |-> Val(HOP1_KEY)]),
           partner_state |-> New("NettingChannelEndStateProperties",
                                 [address |-> Val(HOP2), privatekey |-> Val(HOP2_KEY)])]),
      New("NettingChannelStateProperties", <<>>)>>

\* The lists of properties given to make_channel_set, or None.
CallPropertyLists ==
    {None, List(<<CallProperties[1]>>), List(<<CallProperties[2]>>),
     List(<<CallProperties[1], CallProperties[2]>>)}

\* The defaults a caller gives: None or the class DEFAULTS.
CallDefaults == {None, NettingChannelStateDEFAULTS}

\* make_channel_set(properties, defaults, number_of_channels)
CallMakeChannelSet ==
    /\ \E properties_ \in CallPropertyLists, defaults_ \in CallDefaults,
          number_of_channels \in {None, Val(1), Val(2)} :
          last' = Call("make_channel_set",
                       [properties |-> properties_, defaults |-> defaults_,
                        number_of_channels |-> number_of_channels],
                       make_channel_set(properties_, defaults_, number_of_channels, Draw))
    /\ UNCHANGED <<chan, block, known, outsideChan>>

\* mediator_make_channel_pair(defaults, amount)
CallMediatorMakeChannelPair ==
    /\ \E defaults_ \in CallDefaults, amount \in Amounts, drawn \in RandomChannelIds :
          last' = Call("mediator_make_channel_pair",
                       [defaults |-> defaults_, amount |-> amount],
                       mediator_make_channel_pair(defaults_, amount, Draw, drawn))
    /\ UNCHANGED <<chan, block, known, outsideChan>>

\* pkeys_from_channel_state(properties, defaults)
CallPkeysFromChannelState ==
    /\ \E i \in 1..Len(CallProperties), defaults_ \in CallDefaults :
          \E pkeys \in {pkeys_from_channel_state(CallProperties[i], defaults_)} :
             last' = Call("pkeys_from_channel_state",
                          [properties |-> CallProperties[i], defaults |-> defaults_],
                          [our_key |-> pkeys[1], partner_key |-> pkeys[2]])
    /\ UNCHANGED <<chan, block, known, outsideChan>>

CallNext ==
    \/ CallMakeSignedTransferFor
    \/ CallMakeCanonicalIdentifier
    \/ CallMakeTransfersPair
    \/ CallMakeChannelSet
    \/ CallMediatorMakeChannelPair
    \/ CallPkeysFromChannelState

SpecCalls == CallInit /\ [][CallNext]_vars

Called(kind) == last # None /\ last.kind = kind

\* C16: a transfer returned by make_signed_transfer_for carries the canonical
\* identifier of the channel it was made for, whatever the properties or the
\* defaults name; its sender is a participant of the channel and the address of
\* the signing key, its recipient the other participant.  A call whose sender is
\* no participant, or whose key is not the sender's, fails an assertion.
C16_TransferIsOfItsChannel ==
    Called("make_signed_transfer_for") =>
        LET participants == {chan.our_state.address, chan.partner_state.address}
            args == last.args
        IN /\ last.ok =>
                 LET transfer == last.returned.fields
                     balance_proof == transfer.balance_proof.fields
                 IN /\ balance_proof.canonical_identifier.cid = chan.canonical_identifier
                    /\ balance_proof.signature.signature.data.canonical_identifier.cid
                           = chan.canonical_identifier
                    /\ balance_proof.sender.val \in participants
                    /\ balance_proof.sender.val
                           = privatekey_to_address(balance_proof.signature.signature.pkey.val)
                    /\ balance_proof.sender.val = args.sender
                    /\ participants = {balance_proof.sender.val, transfer.recipient.val}
           /\ (args.sender \notin participants
                  \/ privatekey_to_address(args.pkey) # args.sender) =>
                 IsAssertionError(last.returned)

\* Our own end signed a transfer for the partner, with properties that name
\* another channel.
C16_Witness ==
    /\ Called("make_signed_transfer_for") /\ last.ok
    /\ last.args.canonical_identifier # EMPTY
    /\ last.args.canonical_identifier.cid # chan.canonical_identifier
    /\ last.returned.fields.balance_proof.fields.sender.val = chan.our_state.address
    /\ last.returned.fields.recipient.val = chan.partner_state.address

-----------------------------------------------------------------------------
(* Claims about make_transfers_pair *)

JustMade == medLast # None /\ medLast.kind = "make_transfers_pair"

\* C17: make_transfers_pair(n, amount, block_number) returns n-1 pairs; the
\* payer transfer of pair i is accepted on channel i, the payee transfer is sent
\* on channel i+1 to its partner, with the payer lock's secrethash, an amount
\* and an expiration not above the payer lock's, and channel i+1 is usable for
\* that amount and the lock's remaining time.
C17_TransfersPairs ==
    JustMade =>
        /\ ~IsError(med)
        /\ Len(med.transfers_pair) = Len(med.channels.channels) - 1
        /\ \A i \in 1..Len(med.transfers_pair) :
              LET pair == med.transfers_pair[i]
                  payer_channel == med.channels.channels[i]
                  payee_channel == med.channels.channels[i + 1]
              IN /\ pair.payer_transfer.lock \in payer_channel.partner_state.pending
                 /\ pair.payer_transfer.canonical_identifier
                        = payer_channel.canonical_identifier
                 /\ pair.payer_transfer.sender = payer_channel.partner_state.address
                 /\ pair.payee_transfer.lock \in payee_channel.our_state.pending
                 /\ pair.payee_transfer.canonical_identifier
                        = payee_channel.canonical_identifier
                 /\ pair.payee_transfer.recipient = payee_channel.partner_state.address
                 /\ pair.payee_address = payee_channel.partner_state.address
                 /\ pair.payee_transfer.lock.secrethash = pair.payer_transfer.lock.secrethash
                 /\ pair.payee_transfer.lock.amount <= pair.payer_transfer.lock.amount
                 /\ pair.payee_transfer.lock.expiration
                        <= pair.payer_transfer.lock.expiration
                 /\ is_channel_usable(payee_channel, med.amount,
                        pair.payee_transfer.lock.expiration - med.block_number)

\* C18: make_canonical_identifier returns the channel identifier it is given,
\* 0 included, and a drawn one only when it is given none; so the channels of
\* make_transfers_pair have the identifiers 0..n-1, whatever is drawn.
C18_SuppliedIdentifierIsKept ==
    /\ Called("make_canonical_identifier") =>
          last.returned.cid.channel_identifier =
              IF last.args.channel_identifier = None THEN last.args.drawn
              ELSE last.args.channel_identifier.val
    /\ (Called("make_transfers_pair") /\ last.ok) =>
          /\ Len(last.returned.channels.channels) = last.args.number_of_channels
          /\ \A i \in 0..(last.args.number_of_channels - 1) :
                last.returned.channels.channels[i + 1].canonical_identifier
                    .channel_identifier = i

\* C19: the channels of a ChannelSet returned by make_channel_set have
\* pairwise distinct channel identifiers, so channel_map has one entry per
\* channel and gives under a channel's identifier that channel.
C19_DistinctIdentifiers ==
    (Called("make_channel_set") /\ last.ok) =>
        LET channels == last.returned.channels
        IN /\ \A i, j \in 1..Len(channels) :
                 i # j => channels[i].canonical_identifier.channel_identifier
                              # channels[j].canonical_identifier.channel_identifier
           /\ Cardinality(DOMAIN channel_map(last.returned)) = Len(channels)
           /\ \A i \in 1..Len(channels) :
                 channel_map(last.returned)[channels[i].canonical_identifier
                                                .channel_identifier] = channels[i]

IsKeyOrNone(key) == key = None \/ (key # EMPTY /\ key.val \in SeqToSet(PKEYS))

\* C20: the keys returned by pkeys_from_channel_state are private keys or None,
\* never EMPTY, and so are the entries of our_privatekeys and
\* partner_privatekeys of every ChannelSet, one entry per channel.
C20_KeysAreNeverEmpty ==
    /\ Called("pkeys_from_channel_state") =>
          /\ last.returned.our_key # EMPTY /\ IsKeyOrNone(last.returned.our_key)
          /\ last.returned.partner_key # EMPTY /\ IsKeyOrNone(last.returned.partner_key)
    /\ ((Called("make_channel_set") \/ Called("mediator_make_channel_pair")) /\ last.ok) =>
          /\ Len(last.returned.our_privatekeys) = Len(last.returned.channels)
          /\ Len(last.returned.partner_privatekeys) = Len(last.returned.channels)
          /\ \A i \in 1..Len(last.returned.channels) :
                /\ IsKeyOrNone(last.returned.our_privatekeys[i])
                /\ IsKeyOrNone(last.returned.partner_privatekeys[i])

\* Whether a JSON object of the text names in _type a class that its module
\* does not have.
RECURSIVE NamesAbsentClass(_)
NamesAbsentClass(obj) ==
    /\ obj.json = "object"
    /\ \/ /\ "_type" \in DOMAIN obj.members
          /\ obj.members["_type"].v[1] \in Modules
          /\ obj.members["_type"].v[2] \notin ModuleClasses(obj.members["_type"].v[1])
       \/ \E k \in DOMAIN obj.members : NamesAbsentClass(obj.members[k])

\* Whether object_hook cannot rebuild the JSON object: it has no _type, or its
\* _type names a class without from_dict.
CannotRebuild(obj) ==
    \/ "_type" \notin DOMAIN obj.members
    \/ /\ obj.members["_type"].v[1] \in Modules
       /\ obj.members["_type"].v[2] \in ModuleClasses(obj.members["_type"].v[1])
       /\ ~hasattr_from_dict(obj.members["_type"].v[2])

\* C21: json_decode fails on well-formed JSON only with a TypeError, when a
\* _type names a class absent from its module; a JSON object without _type, or
\* with a _type naming a class without from_dict, comes back as a dict with
\* the keys and values it has in the text.
C21_DecodeNeverFails ==
    (jsonBack # None) =>
        /\ IsError(jsonBack) =>
              jsonBack.type = "TypeError" /\ NamesAbsentClass(jsonText)
        /\ (jsonObj = None /\ CannotRebuild(jsonText)) =>
              jsonBack = PyDict([k \in DOMAIN jsonText.members |->
                                    json_decode(jsonText.members[k])])

====
